---- MODULE Spec2Model ----
(***************************************************************************)
(* Model of the Google Places grid synchronisation of Auphere/places:     *)
(* SyncService::sync_city / sync_cities (src/services/sync_service.rs),    *)
(* GridGenerator (src/services/grid_generator.rs) and the upsert of        *)
(* PlaceRepository / ReviewRepository / PhotoRepository (src/db).          *)
(* Further specifications over the same variables: SyncLiveSpec (the sync  *)
(* under fair scheduling), GridSpec and GridLoopSpec (generate_grid, as a  *)
(* function and loop by loop), CacheSpec / CacheLiveSpec (PlacesCache,     *)
(* src/services/cache.rs), KeySpec (generate_key), SearchSpec              *)
(* (GET /places/search), TypeSpec (map_google_type_to_internal), PhotoSpec *)
(* (repeated syncs of the photos of one place) and UpsertSpec (concurrent  *)
(* upsert_google_place calls and delete_place).                            *)
(*                                                                         *)
(* Units: latitudes and longitudes are integers in 1e-4 degree, cell sizes *)
(* are integers in metres, so that the grid arithmetic stays integral.     *)
(* Option<String> is modelled with the string "None" for None, the other   *)
(* options and the Results by a record with a `some` / `ok` flag.          *)
(***************************************************************************)
EXTENDS Integers, Sequences, FiniteSets, TLC

\* ------------------------------------------------------------------ bounds
\* number of failures (upstream or store) the environment injects in one behaviour
MaxFaults == 1
\* number of records the upstream source returns in one behaviour
MaxRecords == 2
\* extent of a registry boundary kept by the model, in 1e-4 degree
MaxLatSpan == 100
MaxLngSpan == 200

\* -------------------------------------------------------- program constants
\* km per degree of latitude (grid_generator.rs:62)
KmPerDegree == 111
\* default cell size, metres (grid_generator.rs:205: 1.5 km)
DefaultCellSizeM == 1500
\* default search radius, metres (grid_generator.rs:206)
DefaultRadiusM == 1000

None == "None"
\* Option<number>
NoneNum == [some |-> FALSE, v |-> 0]
Some(v) == [some |-> TRUE, v |-> v]
unwrap_or(o, default) == IF o.some THEN o.v ELSE default

\* external identifiers the upstream source knows
PlaceIds == {"p1", "p2"}
\* city names a request can carry
CityNames == {"Zaragoza", "Madrid", "MADRID", "madrid", "Barcelona"}
\* city lists a batch request can carry
CityLists == {<<>>, <<"Zaragoza">>, <<"Madrid">>, <<"Zaragoza", "Zaragoza">>,
              <<"Zaragoza", "Madrid">>, <<"Madrid", "Zaragoza">>, <<"Madrid", "Madrid">>}

\* -------------------------------------------------------------- sequences
RECURSIVE SeqsUpTo(_, _)
SeqsUpTo(S, n) ==
    IF n = 0 THEN {<<>>}
    ELSE LET shorter == SeqsUpTo(S, n - 1)
         IN shorter \cup {Append(s, x) : s \in {t \in shorter : Len(t) = n - 1}, x \in S}

RECURSIVE SumSeq(_)
SumSeq(s) == IF s = <<>> THEN 0 ELSE Head(s) + SumSeq(Tail(s))

Min(a, b) == IF a <= b THEN a ELSE b

\* ------------------------------------------------------------------- grid
\* str::to_lowercase on the names the model uses
to_lowercase(name) ==
    CASE name = "Zaragoza" -> "zaragoza"
      [] name = "Madrid" -> "madrid"
      [] name = "MADRID" -> "madrid"
      [] name = "Barcelona" -> "barcelona"
      [] OTHER -> name

\* The static registry.  Only "zaragoza" is active; the other cities are
\* commented out in the source.  The model keeps the south-west corner and
\* clips the extent to MaxLatSpan x MaxLngSpan to keep the grid small.
get_city_bounds(city_name) ==
    LET city_lower == to_lowercase(city_name)
    IN IF city_lower = "zaragoza"
       THEN [some |-> TRUE, name |-> "Zaragoza",
             min_lat |-> 416000, max_lat |-> Min(417000, 416000 + MaxLatSpan),
             min_lng |-> -9500, max_lng |-> Min(-8200, -9500 + MaxLngSpan)]
       ELSE [some |-> FALSE, name |-> "",
             min_lat |-> 0, max_lat |-> 0, min_lng |-> 0, max_lng |-> 0]

\* cos(latitude) * 1000 for the latitudes the model uses: 40.0 .. 40.1 deg,
\* 41.6 .. 41.7 deg (the registry), and the equator otherwise
CosE3(lat) ==
    CASE lat \div 10000 = 40 -> 766
      [] lat \div 10000 = 41 -> 747
      [] OTHER -> 1000

\* the inner `while lng <= bounds.max_lng` loop of generate_grid
\* faulty variant: the counter is incremented after the cell is named
RECURSIVE GridRow_zero_based(_, _, _, _, _, _)
GridRow_zero_based(bounds, lat, lng, lng_step, radius_m, cell_counter) ==
    IF lng <= bounds.max_lng
    THEN <<[latitude |-> lat, longitude |-> lng, radius |-> radius_m,
            cell_id |-> [name |-> bounds.name, index |-> cell_counter]]>>
         \o GridRow_zero_based(bounds, lat, lng + lng_step, lng_step, radius_m,
                               cell_counter + 1)
    ELSE <<>>
\* faulty variant of the inner loop: the east edge is left out
RECURSIVE GridRow_exclusive(_, _, _, _, _, _)
GridRow_exclusive(bounds, lat, lng, lng_step, radius_m, cell_counter) ==
    IF lng < bounds.max_lng \/ lng = bounds.min_lng
    THEN <<[latitude |-> lat, longitude |-> lng, radius |-> radius_m,
            cell_id |-> [name |-> bounds.name, index |-> cell_counter + 1]]>>
         \o GridRow_exclusive(bounds, lat, lng + lng_step, lng_step, radius_m,
                              cell_counter + 1)
    ELSE <<>>
RECURSIVE GridRow(_, _, _, _, _, _)
GridRow(bounds, lat, lng, lng_step, radius_m, cell_counter) ==
    IF lng <= bounds.max_lng
    THEN <<[latitude |-> lat, longitude |-> lng, radius |-> radius_m,
            cell_id |-> [name |-> bounds.name, index |-> cell_counter + 1]]>>
         \o GridRow(bounds, lat, lng + lng_step, lng_step, radius_m, cell_counter + 1)
    ELSE <<>>

\* the outer `while lat <= bounds.max_lat` loop of generate_grid
RECURSIVE GridRows(_, _, _, _, _, _)
GridRows(bounds, lat, lat_step, lng_step, radius_m, cell_counter) ==
    IF lat <= bounds.max_lat
    THEN LET row == GridRow(bounds, lat, bounds.min_lng, lng_step, radius_m, cell_counter)
         IN row \o GridRows(bounds, lat + lat_step, lat_step, lng_step, radius_m,
                            cell_counter + Len(row))
    ELSE <<>>

\* let lat_step = cell_size_km / 111.0
LatStep(cell_size_m) == (cell_size_m * 10) \div KmPerDegree

\* let lng_step = cell_size_km / (111.0 * center_lat.to_radians().cos())
LngStep(bounds, cell_size_m) ==
    LET center_lat == (bounds.min_lat + bounds.max_lat) \div 2
    IN (cell_size_m * 10 * 1000) \div (KmPerDegree * CosE3(center_lat))

\* faulty variant: the cells carry the default radius, not the requested one
generate_grid_default_radius(bounds, cell_size_m, radius_m) ==
    GridRows(bounds, bounds.min_lat, LatStep(cell_size_m), LngStep(bounds, cell_size_m),
             DefaultRadiusM, 0)
\* GridGenerator::generate_grid
generate_grid(bounds, cell_size_m, radius_m) ==
    GridRows(bounds, bounds.min_lat, LatStep(cell_size_m), LngStep(bounds, cell_size_m),
             radius_m, 0)

\* faulty variant: an unknown city gives an empty grid instead of an error
generate_for_city_empty(city_name, cell_size_m, radius_m) ==
    LET bounds == get_city_bounds(city_name)
    IN [ok |-> TRUE,
        cells |-> IF ~bounds.some THEN <<>>
                  ELSE generate_grid(bounds, unwrap_or(cell_size_m, DefaultCellSizeM),
                                     unwrap_or(radius_m, DefaultRadiusM))]
\* GridGenerator::generate_for_city -> Result<Vec<GridCell>, String>
generate_for_city(city_name, cell_size_m, radius_m) ==
    LET bounds == get_city_bounds(city_name)
    IN IF ~bounds.some
       THEN [ok |-> FALSE, cells |-> <<>>]
       ELSE [ok |-> TRUE,
             cells |-> generate_grid(bounds, unwrap_or(cell_size_m, DefaultCellSizeM),
                                     unwrap_or(radius_m, DefaultRadiusM))]

\* -------------------------------------------------------------- SyncStats
\* SyncStats::new
SyncStats_new(city) ==
    [city |-> city, api_requests |-> 0, places_retrieved |-> 0,
     places_created |-> 0, places_skipped |-> 0, places_failed |-> 0,
     reviews_created |-> 0, photos_created |-> 0, errors |-> <<>>,
     duration_seconds |-> 0, started_at |-> "now", completed_at |-> None]

\* SyncStats::complete
\* faulty variant: the duration is stored but completed_at is left unset
SyncStats_complete_unstamped(s, duration) ==
    [s EXCEPT !.duration_seconds = duration]
SyncStats_complete(s, duration) ==
    [s EXCEPT !.duration_seconds = duration, !.completed_at = "now"]

\* the strings pushed on stats.errors, kept as their format arguments
NoCell == [name |-> "", index |-> 0]
\* format!("API error for cell {}: {}", cell.cell_id, e)
ApiErrorMsg(cell_id, e) ==
    [msg |-> "API error for cell", cell |-> cell_id, name |-> "", err |-> e]
\* format!("Failed to store {}: {}", create_req.name, e)
StoreErrorMsg(name, e) ==
    [msg |-> "Failed to store", cell |-> NoCell, name |-> name, err |-> e]
\* format!("Sync failed: {}", e)
SyncFailedMsg(e) ==
    [msg |-> "Sync failed", cell |-> NoCell, name |-> "", err |-> e]

\* ------------------------------------------------------------------ store
\* GooglePlacesClient::to_create_request: the request carries the record's
\* place_id as google_place_id and name, the caller's city, and the mutable
\* attributes (`data`: whether they come from the basic or the detailed record)
to_create_request(google_place, city) ==
    [name |-> google_place.place_id, google_place_id |-> google_place.place_id,
     city |-> city, data |-> google_place.data]

\* INSERT ... ON CONFLICT (google_place_id) DO NOTHING RETURNING id
InsertAlways(tbl, nid, req, now) ==
    [places |-> tbl \cup {[id |-> nid, google_place_id |-> req.google_place_id,
                           city |-> req.city, data |-> req.data, is_active |-> TRUE,
                           created_at |-> now, updated_at |-> now]},
     inserted |-> TRUE]
\* faulty variant: a conflicting insert also returns a row
InsertReturnsOnConflict(tbl, nid, req, now) ==
    IF \E r \in tbl : r.google_place_id = req.google_place_id
    THEN [places |-> tbl, inserted |-> TRUE]
    ELSE [places |-> tbl \cup {[id |-> nid, google_place_id |-> req.google_place_id,
                                city |-> req.city, data |-> req.data, is_active |-> TRUE,
                                created_at |-> now, updated_at |-> now]},
          inserted |-> TRUE]
InsertOnConflictDoNothing(tbl, nid, req, now) ==
    IF \E r \in tbl : r.google_place_id = req.google_place_id
    THEN [places |-> tbl, inserted |-> FALSE]
    ELSE [places |-> tbl \cup {[id |-> nid, google_place_id |-> req.google_place_id,
                                city |-> req.city, data |-> req.data, is_active |-> TRUE,
                                created_at |-> now, updated_at |-> now]},
          inserted |-> TRUE]

\* UPDATE places SET ..., is_active = true, updated_at = NOW()
\* WHERE google_place_id = $23
\* faulty variant: the update leaves is_active as it is
UpdateByGoogleId_keep_flag(tbl, req, now) ==
    {IF r.google_place_id = req.google_place_id
     THEN [r EXCEPT !.city = req.city, !.data = req.data, !.updated_at = now]
     ELSE r : r \in tbl}
\* faulty variant: the update also restamps created_at
UpdateByGoogleId_restamp(tbl, req, now) ==
    {IF r.google_place_id = req.google_place_id
     THEN [r EXCEPT !.city = req.city, !.data = req.data, !.is_active = TRUE,
                    !.created_at = now, !.updated_at = now]
     ELSE r : r \in tbl}
UpdateByGoogleId(tbl, req, now) ==
    {IF r.google_place_id = req.google_place_id
     THEN [r EXCEPT !.city = req.city, !.data = req.data, !.is_active = TRUE,
                    !.updated_at = now]
     ELSE r : r \in tbl}

\* PlaceRepository::get_by_id: WHERE p.id = $1 AND p.is_active = true
get_by_id(tbl, id, db_fails) ==
    IF db_fails THEN [ok |-> FALSE, err |-> "DatabaseError", id |-> 0]
    ELSE IF \E r \in tbl : r.id = id /\ r.is_active
         THEN [ok |-> TRUE, err |-> "", id |-> id]
         ELSE [ok |-> FALSE, err |-> "NotFound", id |-> 0]

\* where a database failure can hit one upsert_google_place call
UpsertFaults == {"none", "insert", "update", "fetch"}

\* PlaceRepository::upsert_google_place -> Result<(Place, bool), PlacesError>
upsert_google_place(tbl, nid, req, fault, now) ==
    LET ins == InsertOnConflictDoNothing(tbl, nid, req, now)
        failed(t, n, e) == [places |-> t, next_id |-> n, ok |-> FALSE, err |-> e,
                            id |-> 0, created |-> FALSE]
    IN IF fault = "insert" THEN failed(tbl, nid, "DatabaseError")
       ELSE IF ins.inserted
       THEN LET got == get_by_id(ins.places, nid, fault = "fetch")
            IN IF got.ok
               THEN [places |-> ins.places, next_id |-> nid + 1, ok |-> TRUE, err |-> "",
                     id |-> got.id, created |-> TRUE]
               ELSE failed(ins.places, nid + 1, got.err)
       ELSE IF fault = "update" THEN failed(tbl, nid, "DatabaseError")
       ELSE LET upd == UpdateByGoogleId(tbl, req, now)
                uid == (CHOOSE r \in upd : r.google_place_id = req.google_place_id).id
                got == get_by_id(upd, uid, fault = "fetch")
            IN IF got.ok
               THEN [places |-> upd, next_id |-> nid, ok |-> TRUE, err |-> "",
                     id |-> got.id, created |-> FALSE]
               ELSE failed(upd, nid, got.err)

\* ReviewRepository::create_review:
\* INSERT ... ON CONFLICT (source, source_id) DO UPDATE SET rating, text
create_review(tbl, req) ==
    IF \E r \in tbl : r.source = req.source /\ r.source_id = req.source_id
    THEN {IF r.source = req.source /\ r.source_id = req.source_id
          THEN [r EXCEPT !.rating = req.rating] ELSE r : r \in tbl}
    ELSE tbl \cup {req}

\* PhotoRepository::create_photo:
\* INSERT ... ON CONFLICT (source, source_photo_reference) DO UPDATE SET
\* photo_url, ..., is_primary, display_order (place_id is not updated)
create_photo(tbl, req) ==
    IF \E r \in tbl : r.source = req.source
                      /\ r.source_photo_reference = req.source_photo_reference
    THEN {IF r.source = req.source /\ r.source_photo_reference = req.source_photo_reference
          THEN [r EXCEPT !.is_primary = req.is_primary, !.display_order = req.display_order]
          ELSE r : r \in tbl}
    ELSE tbl \cup {req}

\* --------------------------------------------------------- upstream source
\* reviews and photos a Place Details response can carry
ReviewLists ==
    {<<>>, <<[rated |-> TRUE, time |-> 1], [rated |-> FALSE, time |-> 2],
             [rated |-> TRUE, time |-> 3]>>}
PhotoLists == {<<>>, <<"a", "b">>}
\* the (reviews, photos) pairs of the responses the model draws from
DetailLists ==
    <<  <<(<<>>), (<<>>)>>,
        <<(<<[rated |-> TRUE, time |-> 1], [rated |-> FALSE, time |-> 2],
             [rated |-> TRUE, time |-> 3]>>), (<<"a", "b">>)>>  >>

\* positions in those lists
ReviewIdx == UNION {DOMAIN l : l \in ReviewLists}
PhotoIdx == UNION {DOMAIN l : l \in PhotoLists}

\* outcomes of GooglePlacesClient::get_place_details
DetailFailure == [ok |-> FALSE, reviews |-> <<>>, photos |-> <<>>]
DetailOutcomes ==
    {DetailFailure} \cup {[ok |-> TRUE, reviews |-> DetailLists[i][1],
                           photos |-> DetailLists[i][2]] : i \in DOMAIN DetailLists}

\* outcomes of GooglePlacesClient::nearby_search: Ok(results) or Err(e);
\* one response lists a place once, overlapping cells return it again
NearbyErrors == {"RateLimitExceeded", "ExternalApiError"}
NearbyOutcomes ==
    {[ok |-> TRUE, err |-> "", results |-> l] : l \in {l \in SeqsUpTo(PlaceIds, MaxRecords) :
            \A i, j \in DOMAIN l : l[i] = l[j] => i = j}}
    \cup {[ok |-> FALSE, err |-> e, results |-> <<>>] : e \in NearbyErrors}

\* elapsed whole seconds start_time.elapsed().as_secs() gives for a run in
\* the model (a failed city is completed with 0)
Durations == {1}

\* (cell_size_km, radius_m) pairs an admin sync request carries
SyncParams == {[cell_size |-> NoneNum, radius_m |-> NoneNum],
               [cell_size |-> Some(3000), radius_m |-> Some(500)]}

\* ------------------------------------------------------------------ state
VARIABLES
    pc,             \* where the running request stands
    request,        \* the admin request being served
    city_idx,       \* sync_cities: index of the city being synced
    cells,          \* sync_city: the generated grid
    cell_idx,       \* sync_city: index of the cell being processed
    pending,        \* sync_city: google_places of the cell still to process
    stats,          \* sync_city: the SyncStats of the run
    all_stats,      \* sync_cities: the vector being built
    result,         \* what the request returned
    places,         \* table places
    place_reviews,  \* table place_reviews
    place_photos,   \* table place_photos
    next_id,        \* next internal id the store hands out
    faults,         \* failures injected so far
    records,        \* records the upstream source has returned so far
    rate_limited,   \* this run: nearby-search has returned RateLimitExceeded
    queried,        \* this run: the nearby-search calls issued, in order
    detail_calls,   \* this run: get_place_details calls issued
    upsert_calls,   \* this run: upsert_google_place calls issued
    sub_calls,      \* this run: create_review and create_photo calls issued
    upsert_failures,\* this run: upsert_google_place calls that returned Err
    last_place,     \* this run: what happened to the last processed record
    run_log,        \* this request: one entry per sync_city call, in order
    aggregated,     \* sync_cities_batch: the summary of the batch
    slept,          \* sync_city: the pacing delays applied at the end of the last step
    cache_store,    \* PlacesCache.store: key -> entry (data, expires_at)
    clock,          \* Instant::now(), in ticks
    cache_ret,      \* the last cache operation and what it returned
    search_log,     \* GET /places/search: one entry per handled request
    call,           \* the arguments of the last call of a pure function
    returned,       \* the value that call returned
    upserts         \* upsert_google_place calls in progress, one per sync run

vars == <<pc, request, city_idx, cells, cell_idx, pending, stats, all_stats, result,
          places, place_reviews, place_photos, next_id, faults, records, rate_limited,
          queried,
          detail_calls, upsert_calls, sub_calls, upsert_failures, last_place, run_log,
          aggregated, slept, cache_store, clock, cache_ret, search_log, call, returned,
          upserts>>

cacheVars == <<cache_store, clock, cache_ret, search_log, call, returned, upserts>>
storeVars == <<places, place_reviews, place_photos, next_id>>
runHistory == <<rate_limited, queried, detail_calls, upsert_calls, sub_calls,
                upsert_failures, last_place>>

\* no cache operation yet
NoCacheOp == [op |-> "none", key |-> "", value |-> [some |-> FALSE, v |-> ""],
              ttl |-> NoneNum, at |-> 0, before |-> {},
              stats |-> [total_entries |-> 0, expired_entries |-> 0, active_entries |-> 0]]
\* no pure function called yet
NoCall == [fn |-> "none"]
\* the sync runs that can upsert at the same time
Runs == {1, 2}
\* a run that is not inside upsert_google_place
NoUpsert == [pc |-> "idle", gid |-> "", id |-> 0, created |-> FALSE, ok |-> FALSE,
             fresh |-> FALSE, disturbed |-> FALSE, reactivated |-> FALSE]
NoUpserts == [last |-> "none", run |-> [p \in Runs |-> NoUpsert]]

\* no delay applied
NoSleep == [record |-> FALSE, cell |-> FALSE]

NoPlace == [seen |-> FALSE, place_id |-> "", detail_ok |-> FALSE, existed |-> FALSE,
            upsert_ok |-> FALSE, created |-> FALSE, data |-> "", id |-> 0,
            reviews |-> <<>>, photos |-> <<>>, rfail |-> {}, pfail |-> {}]

Init ==
    /\ pc = "idle"
    /\ request = [kind |-> "none", cities |-> <<>>, cell_size |-> NoneNum, radius_m |-> NoneNum]
    /\ city_idx = 0
    /\ cells = <<>>
    /\ cell_idx = 0
    /\ pending = <<>>
    /\ stats = SyncStats_new("")
    /\ all_stats = <<>>
    /\ result = [kind |-> "none", err |-> ""]
    /\ places = {}
    /\ place_reviews = {}
    /\ place_photos = {}
    /\ next_id = 1
    /\ faults = 0
    /\ records = 0
    /\ rate_limited = FALSE
    /\ queried = <<>>
    /\ detail_calls = 0
    /\ upsert_calls = 0
    /\ sub_calls = 0
    /\ upsert_failures = 0
    /\ last_place = NoPlace
    /\ run_log = <<>>
    /\ aggregated = SyncStats_new("")
    /\ slept = NoSleep
    /\ cache_store = <<>>
    /\ clock = 0
    /\ cache_ret = NoCacheOp
    /\ search_log = <<>>
    /\ call = NoCall
    /\ returned = ""
    /\ upserts = NoUpserts

\* ------------------------------------------------- sync_city: stats updates
\* matches!(e, PlacesError::RateLimitExceeded)
IsRateLimit_never(e) == FALSE
IsRateLimit_always(e) == TRUE
IsRateLimit(e) == e = "RateLimitExceeded"

\* Ok(google_places) arm: api_requests += 1; places_retrieved += len
OnNearbyOk(s, results) ==
    [s EXCEPT !.api_requests = @ + 1, !.places_retrieved = @ + Len(results)]

\* Err(e) arm of the nearby-search match: stats.errors.push(error_msg)
OnNearbyErr_silent(s, cell, e) == s
OnNearbyErr(s, cell, e) ==
    [s EXCEPT !.errors = Append(@, ApiErrorMsg(cell.cell_id, e))]

\* Ok(details) arm: api_requests += 1
OnDetailsOk(s) == [s EXCEPT !.api_requests = @ + 1]

\* Err(e) arm of the upsert match: places_failed += 1; errors.push(..)
\* faulty variant: the failure is reported but not counted
OnStoreFailure_uncounted(s, name, e) ==
    [s EXCEPT !.errors = Append(@, StoreErrorMsg(name, e))]
OnStoreFailure(s, name, e) ==
    [s EXCEPT !.places_failed = @ + 1, !.errors = Append(@, StoreErrorMsg(name, e))]

\* Err(e) arm of the detail lookup: log::warn! only, the basic record is used
OnDetailsErr_recorded(s, name, e) ==
    [s EXCEPT !.errors = Append(@, StoreErrorMsg(name, e))]
OnDetailsErr(s, name, e) == s

\* the records of the cell still to process after a store failure (`continue`)
AfterStoreFailure_abort(rest) == <<>>
AfterStoreFailure(rest) == Tail(rest)

\* if created { places_created += 1 } else { places_skipped += 1 }
OnUpserted_created(s, created) == [s EXCEPT !.places_created = @ + 1]
OnUpserted(s, created) ==
    IF created THEN [s EXCEPT !.places_created = @ + 1]
    ELSE [s EXCEPT !.places_skipped = @ + 1]

\* tokio::time::sleep(100 ms) at the end of the body of the place loop: the
\* `continue` of the store-failure arm jumps over it
SleepAfterRecord(upsert_ok) == upsert_ok

\* tokio::time::sleep(100 ms) at the end of the body of the cell loop: reached
\* when the place loop of the cell is over and the loop was not left by `break`
SleepAfterCell(records_left, broke) == ~records_left /\ ~broke

\* the record sync_city maps and upserts: the details when the lookup succeeded,
\* the basic nearby-search record otherwise
DetailedPlace(google_place, d) ==
    IF d.ok
    THEN [place_id |-> google_place.place_id, data |-> "details",
          reviews |-> d.reviews, photos |-> d.photos]
    ELSE google_place

\* `for review in reviews`, from index i on; rfail: the calls that return Err
\* faulty variant: the first failing review ends the loop
RECURSIVE SaveReviews_stop(_, _, _, _, _, _)
SaveReviews_stop(tbl, reviews, i, rfail, place_id, gid) ==
    IF i > Len(reviews) \/ i \in rfail THEN [tbl |-> tbl, created |-> 0, calls |-> 0]
    ELSE IF ~reviews[i].rated
    THEN SaveReviews_stop(tbl, reviews, i + 1, rfail, place_id, gid)
    ELSE LET review_req == [place_id |-> place_id, source |-> "google",
                            source_id |-> [place_id |-> gid, time |-> reviews[i].time],
                            rating |-> 5]
             rest == SaveReviews_stop(create_review(tbl, review_req),
                                      reviews, i + 1, rfail, place_id, gid)
         IN [tbl |-> rest.tbl, created |-> rest.created + 1, calls |-> rest.calls + 1]
RECURSIVE SaveReviews(_, _, _, _, _, _)
SaveReviews(tbl, reviews, i, rfail, place_id, gid) ==
    IF i > Len(reviews) THEN [tbl |-> tbl, created |-> 0, calls |-> 0]
    ELSE IF ~reviews[i].rated
    THEN SaveReviews(tbl, reviews, i + 1, rfail, place_id, gid)
    ELSE LET review_req == [place_id |-> place_id, source |-> "google",
                            source_id |-> [place_id |-> gid, time |-> reviews[i].time],
                            rating |-> 5]
             failed == i \in rfail
             rest == SaveReviews(IF failed THEN tbl ELSE create_review(tbl, review_req),
                                 reviews, i + 1, rfail, place_id, gid)
         IN [tbl |-> rest.tbl,
             created |-> rest.created + (IF failed THEN 0 ELSE 1),
             calls |-> rest.calls + 1]

\* `for (idx, photo) in photos.iter().enumerate()`, from index i on (idx = i - 1)
\* faulty variant: every photo is sent as the primary one
RECURSIVE SavePhotos_all_primary(_, _, _, _, _)
SavePhotos_all_primary(tbl, photos, i, pfail, place_id) ==
    IF i > Len(photos) THEN [tbl |-> tbl, created |-> 0, calls |-> 0]
    ELSE LET photo_req == [place_id |-> place_id, source |-> "google",
                           source_photo_reference |-> photos[i],
                           is_primary |-> TRUE, display_order |-> i - 1]
             failed == i \in pfail
             rest == SavePhotos_all_primary(
                         IF failed THEN tbl ELSE create_photo(tbl, photo_req),
                         photos, i + 1, pfail, place_id)
         IN [tbl |-> rest.tbl,
             created |-> rest.created + (IF failed THEN 0 ELSE 1),
             calls |-> rest.calls + 1]
RECURSIVE SavePhotos(_, _, _, _, _)
SavePhotos(tbl, photos, i, pfail, place_id) ==
    IF i > Len(photos) THEN [tbl |-> tbl, created |-> 0, calls |-> 0]
    ELSE LET photo_req == [place_id |-> place_id, source |-> "google",
                           source_photo_reference |-> photos[i],
                           is_primary |-> (i - 1 = 0), display_order |-> i - 1]
             failed == i \in pfail
             rest == SavePhotos(IF failed THEN tbl ELSE create_photo(tbl, photo_req),
                                photos, i + 1, pfail, place_id)
         IN [tbl |-> rest.tbl,
             created |-> rest.created + (IF failed THEN 0 ELSE 1),
             calls |-> rest.calls + 1]

\* ------------------------------------------------ sync_cities: Err(e) arm
\* let mut stats = SyncStats::new(city); stats.errors.push(..);
\* stats.complete(0); all_stats.push(stats)
OnCityFailure_drop(all, city, e) == all
OnCityFailure(all, city, e) ==
    Append(all, SyncStats_complete(
                    [SyncStats_new(city) EXCEPT !.errors = <<SyncFailedMsg(e)>>], 0))

\* ------------------------------------------------------- aggregate_stats
\* one iteration of `for stats in stats_list`; reviews_created and
\* photos_created are not touched by the loop
aggregate_step_no_errors(agg, st) ==
    [agg EXCEPT !.api_requests = @ + st.api_requests,
                !.places_retrieved = @ + st.places_retrieved,
                !.places_created = @ + st.places_created,
                !.places_skipped = @ + st.places_skipped,
                !.places_failed = @ + st.places_failed,
                !.duration_seconds = @ + st.duration_seconds]
aggregate_step(agg, st) ==
    [agg EXCEPT !.api_requests = @ + st.api_requests,
                !.places_retrieved = @ + st.places_retrieved,
                !.places_created = @ + st.places_created,
                !.places_skipped = @ + st.places_skipped,
                !.places_failed = @ + st.places_failed,
                !.duration_seconds = @ + st.duration_seconds,
                !.errors = @ \o st.errors]

RECURSIVE aggregate_loop(_, _)
aggregate_loop(agg, stats_list) ==
    IF stats_list = <<>> THEN agg
    ELSE aggregate_loop(aggregate_step(agg, Head(stats_list)), Tail(stats_list))

\* SyncService::aggregate_stats
aggregate_stats(stats_list) ==
    [aggregate_loop(SyncStats_new("Multiple Cities"), stats_list)
        EXCEPT !.completed_at = "now"]

\* --------------------------------------------------------------- actions
\* POST /admin/sync/{city}: handlers::admin::sync_city calls sync_city
SyncCityRequest(city, p) ==
    /\ pc = "idle"
    /\ request' = [kind |-> "sync_city", cities |-> <<city>>,
                   cell_size |-> p.cell_size, radius_m |-> p.radius_m]
    /\ city_idx' = 1
    /\ pc' = "sync_city"
    /\ UNCHANGED <<cacheVars, aggregated, slept, cells, cell_idx, pending, stats, all_stats, result, storeVars,
                   faults, records, runHistory, run_log>>

\* POST /admin/sync/batch: handlers::admin::sync_cities_batch calls sync_cities
SyncCitiesRequest(cities) ==
    /\ pc = "idle"
    /\ request' = [kind |-> "sync_cities", cities |-> cities,
                   cell_size |-> NoneNum, radius_m |-> NoneNum]
    /\ city_idx' = 1
    /\ all_stats' = <<>>
    /\ pc' = IF cities = <<>> THEN "done" ELSE "sync_city"
    /\ result' = IF cities = <<>> THEN [kind |-> "list", err |-> ""] ELSE result
    /\ UNCHANGED <<cacheVars, aggregated, slept, cells, cell_idx, pending, stats, storeVars, faults, records, runHistory, run_log>>

\* after one city of the batch: sleep 5 s, then the next city or the return
\* faulty variant: a rate-limited city ends the whole batch
AfterCityPc_abort ==
    IF rate_limited \/ city_idx + 1 > Len(request.cities) THEN "done" ELSE "sync_city"
\* faulty variant: the loop over the cities never hands back its list
AfterCityPc_stuck ==
    IF city_idx + 1 > Len(request.cities) THEN "sleeping" ELSE "sync_city"
AfterCityPc == IF city_idx + 1 > Len(request.cities) THEN "done" ELSE "sync_city"
AfterCityResult ==
    IF city_idx + 1 > Len(request.cities) THEN [kind |-> "list", err |-> ""] ELSE result

\* sync_city, lines 104-116: new stats, generate the grid, `?` on failure;
\* in a batch the Err arm of sync_cities pushes the failure record
StartCity ==
    /\ pc = "sync_city"
    /\ LET city == request.cities[city_idx]
           grid == generate_for_city(city, request.cell_size, request.radius_m)
       IN /\ stats' = SyncStats_new(city)
          /\ cells' = grid.cells
          /\ IF grid.ok
             THEN /\ cell_idx' = 1
                  /\ pc' = IF grid.cells = <<>> THEN "complete" ELSE "cell"
                  /\ UNCHANGED <<city_idx, all_stats, result, run_log>>
             ELSE /\ cell_idx' = 0
                  /\ run_log' = Append(run_log, [city |-> city, ok |-> FALSE, nearby |-> 0])
                  /\ IF request.kind = "sync_city"
                     THEN /\ result' = [kind |-> "err", err |-> "InvalidInput"]
                          /\ pc' = "done"
                          /\ UNCHANGED <<city_idx, all_stats>>
                     ELSE /\ all_stats' = OnCityFailure(all_stats, city, "InvalidInput")
                          /\ city_idx' = city_idx + 1
                          /\ pc' = AfterCityPc
                          /\ result' = AfterCityResult
    /\ pending' = <<>>
    /\ rate_limited' = FALSE
    /\ queried' = <<>>
    /\ detail_calls' = 0
    /\ upsert_calls' = 0
    /\ sub_calls' = 0
    /\ upsert_failures' = 0
    /\ last_place' = NoPlace
    /\ slept' = NoSleep
    /\ UNCHANGED <<cacheVars, aggregated, request, storeVars, faults, records>>

\* end of one iteration of the cell loop: sleep 100 ms, next cell or loop exit
AfterCellPc == IF cell_idx + 1 > Len(cells) THEN "complete" ELSE "cell"

\* one nearby_search call for the current cell and the match on its result
NearbySearch(o) ==
    /\ pc = "cell"
    /\ o.ok \/ faults < MaxFaults
    /\ records + Len(o.results) <= MaxRecords
    /\ records' = records + Len(o.results)
    /\ faults' = IF o.ok THEN faults ELSE faults + 1
    /\ LET cell == cells[cell_idx]
       IN /\ queried' = Append(queried, [cell |-> cell.cell_id, ok |-> o.ok,
                                         err |-> o.err, count |-> Len(o.results)])
          /\ rate_limited' = (rate_limited \/ o.err = "RateLimitExceeded")
          /\ IF o.ok
             THEN /\ stats' = OnNearbyOk(stats, o.results)
                  /\ pending' = o.results
                  /\ IF o.results = <<>>
                     THEN pc' = AfterCellPc /\ cell_idx' = cell_idx + 1
                     ELSE pc' = "place" /\ cell_idx' = cell_idx
             ELSE /\ stats' = OnNearbyErr(stats, cell, o.err)
                  /\ pending' = <<>>
                  /\ IF IsRateLimit(o.err)
                     THEN pc' = "complete" /\ cell_idx' = cell_idx
                     ELSE pc' = AfterCellPc /\ cell_idx' = cell_idx + 1
    /\ last_place' = NoPlace
    /\ slept' = [record |-> FALSE,
                 cell |-> SleepAfterCell(o.ok /\ o.results # <<>>,
                                         ~o.ok /\ IsRateLimit(o.err))]
    /\ UNCHANGED <<cacheVars, aggregated, request, city_idx, cells, all_stats, result, storeVars,
                   detail_calls, upsert_calls, sub_calls, upsert_failures, run_log>>

\* NOW() of the database at the upsert of the current record: the calls are
\* sequential, so the time of a call is its rank (run of the request, call of
\* the run)
Now == Len(run_log) * (MaxRecords + 1) + upsert_calls + 1

\* one iteration of `for google_place in google_places`: detail lookup, mapping,
\* upsert, reviews, photos, sleep 100 ms
ProcessPlace(d, fault, rfail, pfail) ==
    /\ pc = "place"
    /\ LET gid == Head(pending)
           google_place == [place_id |-> gid, data |-> "basic",
                            reviews |-> <<>>, photos |-> <<>>]
           detailed_place == DetailedPlace(google_place, d)
           s1 == IF d.ok THEN OnDetailsOk(stats)
                 ELSE OnDetailsErr(stats, google_place.place_id, "ExternalApiError")
           create_req == to_create_request(detailed_place, request.cities[city_idx])
           existed == \E r \in places : r.google_place_id = create_req.google_place_id
           up == upsert_google_place(places, next_id, create_req, fault, Now)
           rv == SaveReviews(place_reviews, detailed_place.reviews, 1, rfail, up.id, gid)
           ph == SavePhotos(place_photos, detailed_place.photos, 1, pfail, up.id)
           injected == (IF d.ok THEN 0 ELSE 1) + (IF fault = "none" THEN 0 ELSE 1)
                       + Cardinality(rfail) + Cardinality(pfail)
           rest == IF up.ok THEN Tail(pending) ELSE AfterStoreFailure(pending)
       IN /\ fault = "update" => existed
          /\ rfail \subseteq {i \in 1..Len(detailed_place.reviews) :
                                 up.ok /\ detailed_place.reviews[i].rated}
          /\ pfail \subseteq {i \in 1..Len(detailed_place.photos) : up.ok}
          /\ faults + injected <= MaxFaults
          /\ faults' = faults + injected
          /\ places' = up.places
          /\ next_id' = up.next_id
          /\ IF up.ok
             THEN /\ stats' = [OnUpserted(s1, up.created) EXCEPT
                                  !.reviews_created = @ + rv.created,
                                  !.photos_created = @ + ph.created]
                  /\ place_reviews' = rv.tbl
                  /\ place_photos' = ph.tbl
                  /\ sub_calls' = sub_calls + rv.calls + ph.calls
                  /\ upsert_failures' = upsert_failures
             ELSE /\ stats' = OnStoreFailure(s1, create_req.name, up.err)
                  /\ UNCHANGED <<place_reviews, place_photos, sub_calls>>
                  /\ upsert_failures' = upsert_failures + 1
          /\ detail_calls' = detail_calls + 1
          /\ upsert_calls' = upsert_calls + 1
          /\ last_place' = [seen |-> TRUE, place_id |-> gid, detail_ok |-> d.ok,
                            existed |-> existed, upsert_ok |-> up.ok,
                            created |-> up.created, data |-> create_req.data,
                            id |-> up.id,
                            reviews |-> detailed_place.reviews,
                            photos |-> detailed_place.photos,
                            rfail |-> rfail, pfail |-> pfail]
          /\ pending' = rest
          /\ slept' = [record |-> SleepAfterRecord(up.ok),
                       cell |-> SleepAfterCell(rest # <<>>, FALSE)]
          /\ IF rest = <<>>
             THEN pc' = AfterCellPc /\ cell_idx' = cell_idx + 1
             ELSE pc' = "place" /\ cell_idx' = cell_idx
    /\ UNCHANGED <<cacheVars, aggregated, request, city_idx, cells, all_stats, result, records, rate_limited,
                   queried, run_log>>

\* sync_city, lines 304-316: stats.complete(duration); Ok(stats);
\* in a batch the Ok arm of sync_cities pushes the stats
Complete(duration) ==
    /\ pc = "complete"
    /\ stats' = SyncStats_complete(stats, duration)
    /\ run_log' = Append(run_log, [city |-> stats.city, ok |-> TRUE,
                                   nearby |-> Len(queried)])
    /\ IF request.kind = "sync_city"
       THEN /\ result' = [kind |-> "stats", err |-> ""]
            /\ pc' = "done"
            /\ UNCHANGED <<city_idx, all_stats>>
       ELSE /\ all_stats' = Append(all_stats, stats')
            /\ city_idx' = city_idx + 1
            /\ pc' = AfterCityPc
            /\ result' = AfterCityResult
    /\ UNCHANGED <<cacheVars, aggregated, slept, request, cells, cell_idx, pending, storeVars, faults,
                   records, runHistory>>

\* sync_cities_batch after sync_cities has returned: aggregate the list
\* and answer with the summary and the details
BatchSummary ==
    /\ pc = "done"
    /\ request.kind = "sync_cities"
    /\ aggregated' = aggregate_stats(all_stats)
    /\ pc' = "responded"
    /\ UNCHANGED <<cacheVars, request, city_idx, cells, cell_idx, pending, stats, all_stats,
                   result, storeVars, faults, records, runHistory, run_log, slept>>

Next ==
    \/ \E city \in CityNames, p \in SyncParams : SyncCityRequest(city, p)
    \/ \E cities \in CityLists : SyncCitiesRequest(cities)
    \/ StartCity
    \/ \E o \in NearbyOutcomes : NearbySearch(o)
    \/ \E d \in DetailOutcomes, fault \in UpsertFaults,
          rfail \in SUBSET ReviewIdx, pfail \in SUBSET PhotoIdx :
            ProcessPlace(d, fault, rfail, pfail)
    \/ \E duration \in Durations : Complete(duration)
    \/ BatchSummary

Spec == Init /\ [][Next]_vars

\* one step of a running sync: every awaited call (grid, nearby_search,
\* get_place_details, the store calls, the sleeps) returns
SyncStep ==
    \/ StartCity
    \/ \E o \in NearbyOutcomes : NearbySearch(o)
    \/ \E d \in DetailOutcomes, fault \in UpsertFaults,
          rfail \in SUBSET ReviewIdx, pfail \in SUBSET PhotoIdx :
            ProcessPlace(d, fault, rfail, pfail)
    \/ \E duration \in Durations : Complete(duration)

\* the batches of the termination check: at most one registered city each
LiveCityLists ==
    {l \in CityLists : Cardinality({i \in DOMAIN l : l[i] = "Zaragoza"}) <= 1}

SyncLiveNext ==
    \/ \E city \in CityNames, p \in SyncParams : SyncCityRequest(city, p)
    \/ \E cities \in LiveCityLists : SyncCitiesRequest(cities)
    \/ SyncStep
    \/ BatchSummary

\* the executor keeps running the task of a started sync
SyncLiveSpec == Init /\ [][SyncLiveNext]_vars /\ WF_vars(SyncStep)

\* ------------------------------------------- generate_grid on its own
\* boundaries with min <= max on both axes (1e-4 degree), cell sizes (metres)
\* and radii (metres) generate_grid is applied to; the spans 270 and 352 are
\* whole numbers of steps, the span 0 is a boundary with min = max
GridBounds ==
    {[name |-> "Test City", min_lat |-> lat, max_lat |-> lat + dlat,
      min_lng |-> lng, max_lng |-> lng + dlng] :
        lat \in {400000, 416000}, dlat \in {0, 1, 200, 270, 400},
        lng \in {-37000, 100}, dlng \in {0, 1, 200, 352, 400}}
GridCellSizes == {1500, 3000}
GridRadii == {500, 1000}

\* a caller holds a boundary, a cell size and a radius
GridInit ==
    /\ pc = "grid"
    /\ request \in [kind : {"generate_grid"}, bounds : GridBounds,
                     cell_size : GridCellSizes, radius_m : GridRadii]
    /\ city_idx = 0
    /\ cells = <<>>
    /\ cell_idx = 0
    /\ pending = <<>>
    /\ stats = SyncStats_new("")
    /\ all_stats = <<>>
    /\ result = [kind |-> "none", err |-> ""]
    /\ places = {}
    /\ place_reviews = {}
    /\ place_photos = {}
    /\ next_id = 1
    /\ faults = 0
    /\ records = 0
    /\ rate_limited = FALSE
    /\ queried = <<>>
    /\ detail_calls = 0
    /\ upsert_calls = 0
    /\ sub_calls = 0
    /\ upsert_failures = 0
    /\ last_place = NoPlace
    /\ run_log = <<>>
    /\ aggregated = SyncStats_new("")
    /\ slept = NoSleep
    /\ cache_store = <<>>
    /\ clock = 0
    /\ cache_ret = NoCacheOp
    /\ search_log = <<>>
    /\ call = NoCall
    /\ returned = ""
    /\ upserts = NoUpserts

\* GridGenerator::generate_grid(&bounds, cell_size_km, radius_m)
GenerateGrid ==
    /\ pc = "grid"
    /\ cells' = generate_grid(request.bounds, request.cell_size, request.radius_m)
    /\ pc' = "grid_done"
    /\ UNCHANGED <<cacheVars, request, city_idx, cell_idx, pending, stats, all_stats, result,
                   storeVars, faults, records, runHistory, run_log, aggregated, slept>>

GridNext == GenerateGrid

GridSpec == GridInit /\ [][GridNext]_vars

\* ------------------------------------- generate_grid, one iteration a step
\* cells the process has memory for: Vec::push aborts the process when the
\* allocation fails
MaxCells == 12

\* the boundaries of GridBounds and the boundary sync_city takes from the
\* registry
LoopBounds ==
    GridBounds \cup
    {[name |-> b.name, min_lat |-> b.min_lat, max_lat |-> b.max_lat,
      min_lng |-> b.min_lng, max_lng |-> b.max_lng] :
        b \in {get_city_bounds("zaragoza")}}

\* cell_size_km of SyncRequest is an Option<f64> handed on as it came: any
\* number of the request body, zero and negative ones included (metres)
RequestCellSizes == {-1500, 0, 1500, 3000}

\* the state generate_grid leaves alone
gridFrame == <<request, city_idx, cell_idx, pending, stats, all_stats, result,
               storeVars, faults, records, runHistory, run_log, aggregated, slept,
               cache_store, clock, cache_ret, search_log, returned, upserts>>

\* GridGenerator::generate_grid is entered: the steps are computed, the Vec
\* is empty, lat = bounds.min_lat
GridCall(bounds, cell_size_m, radius_m) ==
    /\ pc = "idle"
    /\ call = NoCall
    /\ call' = [fn |-> "generate_grid", bounds |-> bounds, cell_size |-> cell_size_m,
                radius_m |-> radius_m,
                lat_step |-> LatStep(cell_size_m),
                lng_step |-> LngStep(bounds, cell_size_m),
                lat |-> bounds.min_lat, lng |-> bounds.min_lng, cell_counter |-> 0]
    /\ cells' = <<>>
    /\ pc' = "grid_outer"
    /\ UNCHANGED gridFrame

\* `while lat <= bounds.max_lat { let mut lng = bounds.min_lng; ...`, and the
\* return of the cells when the condition fails
GridOuter ==
    /\ pc = "grid_outer"
    /\ IF call.lat <= call.bounds.max_lat
       THEN /\ call' = [call EXCEPT !.lng = call.bounds.min_lng]
            /\ pc' = "grid_inner"
       ELSE /\ call' = call
            /\ pc' = "grid_done"
    /\ UNCHANGED <<cells, gridFrame>>

\* `while lng <= bounds.max_lng { cell_counter += 1; cells.push(..);
\* lng += lng_step; }`, and `lat += lat_step` when the condition fails
GridInner ==
    /\ pc = "grid_inner"
    /\ IF call.lng <= call.bounds.max_lng
       THEN IF Len(cells) < MaxCells
            THEN /\ cells' = Append(cells,
                                    [latitude |-> call.lat, longitude |-> call.lng,
                                     radius |-> call.radius_m,
                                     cell_id |-> [name |-> call.bounds.name,
                                                  index |-> call.cell_counter + 1]])
                 /\ call' = [call EXCEPT !.cell_counter = @ + 1,
                                         !.lng = @ + call.lng_step]
                 /\ pc' = "grid_inner"
            ELSE /\ cells' = cells
                 /\ call' = call
                 /\ pc' = "grid_aborted"
       ELSE /\ cells' = cells
            /\ call' = [call EXCEPT !.lat = @ + call.lat_step]
            /\ pc' = "grid_outer"
    /\ UNCHANGED gridFrame

GridLoopStep == GridOuter \/ GridInner

GridLoopNext ==
    \/ \E bounds \in LoopBounds, cell_size_m \in RequestCellSizes, radius_m \in GridRadii :
          GridCall(bounds, cell_size_m, radius_m)
    \/ GridLoopStep

\* the function runs on the thread that called it until it returns
GridLoopSpec == Init /\ [][GridLoopNext]_vars /\ WF_vars(GridLoopStep)

\* ------------------------------------------------------------------ cache
\* last tick the clock reaches
MaxClock == 4
\* default_ttl of the cache under study, in ticks: PlacesCache::new(DefaultTtl)
DefaultTtl == 2

CacheKeys == {"k1", "k2"}
CacheValues == {"v1", "v2"}
\* the ttl argument of a write: none (set) or a custom one (set_with_ttl)
CacheTtls == {NoneNum, Some(1)}

\* CacheEntry::new(data, ttl) called at `now`
CacheEntry_new(data, ttl, now) == [data |-> data, expires_at |-> now + ttl]

\* CacheEntry::is_expired at `now`
CacheEntry_is_expired(entry, now) == now > entry.expires_at

\* faulty variant: any stored entry is returned
PlacesCache_get_stale(store, key, now) ==
    IF key \in DOMAIN store THEN Some(store[key].data) ELSE [some |-> FALSE, v |-> ""]
\* PlacesCache::get(key) called at `now`
PlacesCache_get(store, key, now) ==
    IF key \in DOMAIN store /\ ~CacheEntry_is_expired(store[key], now)
    THEN Some(store[key].data)
    ELSE [some |-> FALSE, v |-> ""]

\* faulty variant: a write keeps the expiry of the entry it replaces
PlacesCache_set_with_ttl_keep_expiry(store, key, value, ttl, now) ==
    [k \in DOMAIN store \cup {key} |->
        IF k # key THEN store[k]
        ELSE IF key \in DOMAIN store
             THEN [data |-> value, expires_at |-> store[key].expires_at]
             ELSE CacheEntry_new(value, ttl, now)]
\* PlacesCache::set_with_ttl(key, value, ttl) called at `now`: HashMap::insert
PlacesCache_set_with_ttl(store, key, value, ttl, now) ==
    [k \in DOMAIN store \cup {key} |->
        IF k = key THEN CacheEntry_new(value, ttl, now) ELSE store[k]]

\* PlacesCache::set(key, value): the default TTL
PlacesCache_set(store, key, value, now) ==
    PlacesCache_set_with_ttl(store, key, value, DefaultTtl, now)

\* faulty variant: one expired entry is removed per call
PlacesCache_cleanup_one(store, now) ==
    LET expired == {k \in DOMAIN store : CacheEntry_is_expired(store[k], now)}
    IN IF expired = {} THEN store
       ELSE LET gone == CHOOSE k \in expired : TRUE
            IN [k \in DOMAIN store \ {gone} |-> store[k]]
\* faulty variant: nothing is removed
PlacesCache_cleanup_none(store, now) == store
\* PlacesCache::cleanup() called at `now`: retain the entries not expired
PlacesCache_cleanup(store, now) ==
    [k \in {j \in DOMAIN store : ~CacheEntry_is_expired(store[j], now)} |-> store[k]]

\* faulty variant: the sweep empties the cache
SweepCleanup_clear(store, now) == <<>>
\* the body of the loop of start_cleanup_task after a tick of its interval
SweepCleanup(store, now) == PlacesCache_cleanup(store, now)

\* what every cache operation leaves in cache_ret: its name, the instant of
\* the call and the keys stored when it was called
CacheOp(name) ==
    [NoCacheOp EXCEPT !.op = name, !.at = clock, !.before = DOMAIN cache_store]

\* PlacesCache::stats() called at `now`
PlacesCache_stats(store, now) ==
    LET total == Cardinality(DOMAIN store)
        expired == Cardinality({k \in DOMAIN store : CacheEntry_is_expired(store[k], now)})
    IN [total_entries |-> total, expired_entries |-> expired,
        active_entries |-> total - expired]

syncVars == <<pc, request, city_idx, cells, cell_idx, pending, stats, all_stats, result,
              storeVars, faults, records, runHistory, run_log, aggregated, slept, upserts>>

\* cache.set(key, value) or cache.set_with_ttl(key, value, ttl)
CacheSet(key, value, ttl) ==
    /\ cache_store' = IF ttl.some
                      THEN PlacesCache_set_with_ttl(cache_store, key, value, ttl.v, clock)
                      ELSE PlacesCache_set(cache_store, key, value, clock)
    /\ cache_ret' = [CacheOp("set") EXCEPT !.key = key, !.value = Some(value), !.ttl = ttl]
    /\ UNCHANGED <<syncVars, clock, search_log, call, returned>>

\* cache.get(key)
CacheGet(key) ==
    /\ cache_ret' = [CacheOp("get") EXCEPT !.key = key,
                                        !.value = PlacesCache_get(cache_store, key, clock)]
    /\ UNCHANGED <<syncVars, cache_store, clock, search_log, call, returned>>

\* cache.cleanup() called directly
CacheCleanup ==
    /\ cache_store' = PlacesCache_cleanup(cache_store, clock)
    /\ cache_ret' = CacheOp("cleanup")
    /\ UNCHANGED <<syncVars, clock, search_log, call, returned>>

\* start_cleanup_task: the interval has ticked and the task calls cleanup
SweepTick ==
    /\ cache_store' = SweepCleanup(cache_store, clock)
    /\ cache_ret' = CacheOp("sweep")
    /\ UNCHANGED <<syncVars, clock, search_log, call, returned>>

\* cache.stats()
CacheStats ==
    /\ cache_ret' = [CacheOp("stats") EXCEPT !.stats = PlacesCache_stats(cache_store, clock)]
    /\ UNCHANGED <<syncVars, cache_store, clock, search_log, call, returned>>

\* time passes
Tick ==
    /\ clock < MaxClock
    /\ clock' = clock + 1
    /\ UNCHANGED <<syncVars, cache_store, cache_ret, search_log, call, returned>>

CacheNext ==
    \/ \E key \in CacheKeys, value \in CacheValues, ttl \in CacheTtls : CacheSet(key, value, ttl)
    \/ \E key \in CacheKeys : CacheGet(key)
    \/ CacheCleanup
    \/ SweepTick
    \/ CacheStats
    \/ Tick

CacheSpec == Init /\ [][CacheNext]_vars

\* the interval of start_cleanup_task keeps ticking
CacheLiveSpec == Init /\ [][CacheNext]_vars /\ WF_vars(SweepTick)

\* ------------------------------------------------------------ cache keys
\* Option<&str> that is None
NoneStr == [some |-> FALSE, v |-> ""]

\* faulty variant: the cast alone, which truncates toward zero
RoundE4_truncating(x) == IF x >= 0 THEN x \div 10 ELSE -((-x) \div 10)
\* (x * 10000.0).round() as i64 for a coordinate given in 1e-5 degree:
\* f64::round rounds half away from zero
RoundE4(x) == IF x >= 0 THEN (x + 5) \div 10 ELSE -((-x + 5) \div 10)

\* faulty variant: the keyword is left out of the key
generate_key_no_keyword(lat, lon, radius, place_type, keyword) ==
    "search:" \o ToString(RoundE4(lat)) \o ":" \o ToString(RoundE4(lon)) \o ":"
        \o ToString(radius) \o ":" \o unwrap_or(place_type, "all") \o ":"
\* PlacesCache::generate_key: format!("search:{}:{}:{}:{}:{}", ...)
generate_key(lat, lon, radius, place_type, keyword) ==
    "search:" \o ToString(RoundE4(lat)) \o ":" \o ToString(RoundE4(lon)) \o ":"
        \o ToString(radius) \o ":" \o unwrap_or(place_type, "all") \o ":"
        \o unwrap_or(keyword, "")

\* the queries generate_key is applied to: coordinates in 1e-5 degree around
\* (40.4168, -3.7038), radius in metres
KeyLats == {4041676, 4041680, 4041684, 4041686, 4041690}
KeyLons == {-370384, -370380, -370376, -370374}
KeyRadii == {1000, 5000}
KeyTypes == {NoneStr, Some("restaurant"), Some("all"), Some("bar"), Some("bar:grill")}
KeyKeywords == {NoneStr, Some(""), Some("pizza"), Some("tapas"), Some("grill:pizza")}
KeyQueries ==
    [fn : {"generate_key"}, lat : KeyLats, lon : KeyLons, radius : KeyRadii,
     place_type : KeyTypes, keyword : KeyKeywords]

\* the key of a query
KeyOf(q) == generate_key(q.lat, q.lon, q.radius, q.place_type, q.keyword)

\* PlacesCache::generate_key(lat, lon, radius, place_type, keyword)
GenerateKey(q) ==
    /\ call = NoCall
    /\ call' = q
    /\ returned' = KeyOf(q)
    /\ UNCHANGED <<syncVars, cache_store, clock, cache_ret, search_log>>

KeyNext == \E q \in KeyQueries : GenerateKey(q)

KeySpec == Init /\ [][KeyNext]_vars

\* --------------------------------------------------------- ad-hoc search
\* number of search requests handled in one behaviour
MaxSearches == 2

\* SearchQuery: lat and lon in 1e-5 degree, radius_km in km, the keyword q
SearchQueries ==
    [lat : {NoneNum, Some(4041680), Some(4041684)}, lon : {Some(-370380)},
     radius_km : {NoneNum}, type_ : {NoneStr}, q : {NoneStr, Some("pizza")}]

\* search_places_from_google: radius in metres, 5000 when none is given
radius_meters(query) == IF query.radius_km.some THEN query.radius_km.v * 1000 ELSE 5000

\* results of the upstream nearby-search request
SearchOutcomes == {"ok", "err"}

\* GET /places/search: handlers::places::search_places.  Without an API key
\* the database is searched.  With one, a client is built and
\* search_places_from_google runs: a query without coordinates fails
\* validation, any other sends one nearby_search request upstream; the cache
\* handed to the handler is neither read nor written.
SearchPlaces(query, api_key_set, outcome) ==
    /\ Len(search_log) < MaxSearches
    /\ search_log # <<>> => api_key_set = (search_log[1].path = "google")
    /\ search_log' = Append(search_log,
          IF ~api_key_set
          THEN [query |-> query, at |-> clock, path |-> "db", requests |-> 0, ok |-> TRUE]
          ELSE IF ~(query.lat.some /\ query.lon.some)
          THEN [query |-> query, at |-> clock, path |-> "google", requests |-> 0,
                ok |-> FALSE]
          ELSE [query |-> query, at |-> clock, path |-> "google", requests |-> 1,
                ok |-> (outcome = "ok")])
    /\ UNCHANGED <<syncVars, cache_store, clock, cache_ret, call, returned>>

SearchNext ==
    \/ \E query \in SearchQueries, api_key_set \in BOOLEAN, outcome \in SearchOutcomes :
          SearchPlaces(query, api_key_set, outcome)
    \/ Tick

SearchSpec == Init /\ [][SearchNext]_vars

\* ---------------------------------------------------------- type mapping
\* number of category tags on one record
MaxTags == 3

\* the priority mapping of map_google_type_to_internal: (google type, internal type)
type_map ==
    << <<"restaurant", "restaurant">>, <<"bar", "bar">>, <<"night_club", "nightclub">>,
       <<"nightclub", "nightclub">>, <<"cafe", "cafe">>, <<"museum", "other">>,
       <<"park", "other">>, <<"shopping_mall", "other">>, <<"lodging", "other">>,
       <<"food", "restaurant">>, <<"meal_takeaway", "restaurant">>,
       <<"meal_delivery", "restaurant">> >>

\* types.iter().any(|t| t == google_type)
any_eq(types, google_type) == \E i \in DOMAIN types : types[i] = google_type

\* the `for` loop over type_map from entry i on, and the default after it
RECURSIVE first_match(_, _)
first_match(types, i) ==
    IF i > Len(type_map) THEN "other"
    ELSE IF any_eq(types, type_map[i][1]) THEN type_map[i][2]
    ELSE first_match(types, i + 1)

\* faulty variant: the first tag of the record decides
map_google_type_to_internal_first_tag(types) ==
    IF types # <<>> /\ \E j \in DOMAIN type_map : type_map[j][1] = types[1]
    THEN type_map[CHOOSE j \in DOMAIN type_map : type_map[j][1] = types[1]][2]
    ELSE "other"
\* GooglePlacesClient::map_google_type_to_internal
map_google_type_to_internal(types) == first_match(types, 1)

\* category tags of upstream records, some outside the mapping
GoogleTypes == {"restaurant", "bar", "night_club", "cafe", "museum", "food", "store"}
TypeLists == SeqsUpTo(GoogleTypes, MaxTags)

\* to_create_request maps the types of one record
MapType(types) ==
    /\ call = NoCall
    /\ call' = [fn |-> "map_google_type_to_internal", types |-> types]
    /\ returned' = map_google_type_to_internal(types)
    /\ UNCHANGED <<syncVars, cache_store, clock, cache_ret, search_log>>

TypeNext == \E types \in TypeLists : MapType(types)

TypeSpec == Init /\ [][TypeNext]_vars

\* ------------------------------------------- photos of a place, run after run
\* number of photos one Place Details response lists
MaxPhotos == 2

\* photo references the source can list for the place, and the lists it sends
PhotoRefs == {"a", "b", "c"}
ResyncPhotoLists ==
    {l \in SeqsUpTo(PhotoRefs, MaxPhotos) : \A i, j \in DOMAIN l : l[i] = l[j] => i = j}

\* sync_city, the photo loop of a record whose place is stored under id 1:
\* each run sends the photos the source lists at that time; pfail: the
\* create_photo calls that return Err
SyncPlacePhotos(photos, pfail) ==
    /\ call' = [fn |-> "save_photos", photos |-> photos, pfail |-> pfail]
    /\ place_photos' = SavePhotos(place_photos, photos, 1, pfail, 1).tbl
    /\ UNCHANGED <<pc, request, city_idx, cells, cell_idx, pending, stats, all_stats, result,
                   places, place_reviews, next_id, faults, records, runHistory, run_log,
                   aggregated, slept, cache_store, clock, cache_ret, search_log, returned,
                   upserts>>

PhotoNext ==
    \E photos \in ResyncPhotoLists, pfail \in SUBSET PhotoIdx :
        pfail \subseteq DOMAIN photos /\ SyncPlacePhotos(photos, pfail)

PhotoSpec == Init /\ [][PhotoNext]_vars

\* ------------------------------------- concurrent upserts and soft delete
\* PlaceRepository::delete_place: UPDATE places SET is_active = false WHERE id
delete_place(tbl, id) == {IF r.id = id THEN [r EXCEPT !.is_active = FALSE] ELSE r : r \in tbl}

\* the request of an upsert in progress
UpsertReq(u) == [name |-> u.gid, google_place_id |-> u.gid, city |-> "Zaragoza",
                 data |-> "details"]

upsertFrame == <<pc, request, city_idx, cells, cell_idx, pending, stats, all_stats, result,
                 place_reviews, place_photos, faults, records, runHistory, run_log,
                 aggregated, slept, cache_store, clock, cache_ret, search_log, call, returned>>

\* run p calls PlaceRepository::upsert_google_place for the record gid
BeginUpsert(p, gid) ==
    /\ upserts.run[p].pc \in {"idle", "done"}
    /\ upserts' = [last |-> "begin",
                   run |-> [upserts.run EXCEPT ![p] =
                       [NoUpsert EXCEPT !.pc = "insert", !.gid = gid,
                            !.fresh = ~\E r \in places : r.google_place_id = gid]]]
    /\ UNCHANGED <<upsertFrame, places, next_id>>

\* its INSERT ... ON CONFLICT (google_place_id) DO NOTHING RETURNING id
UpsertInsert(p) ==
    /\ upserts.run[p].pc = "insert"
    /\ LET u == upserts.run[p]
           ins == InsertOnConflictDoNothing(places, next_id, UpsertReq(u), Now)
       IN /\ places' = ins.places
          /\ next_id' = IF ins.places # places THEN next_id + 1 ELSE next_id
          /\ upserts' = [last |-> "insert",
                         run |-> [upserts.run EXCEPT ![p] =
                             IF ins.inserted
                             THEN [u EXCEPT !.pc = "fetch", !.id = next_id, !.created = TRUE]
                             ELSE [u EXCEPT !.pc = "update"]]]
    /\ UNCHANGED upsertFrame

\* its UPDATE places SET ..., is_active = true ... WHERE google_place_id
UpsertUpdate(p) ==
    /\ upserts.run[p].pc = "update"
    /\ LET u == upserts.run[p]
           old == CHOOSE r \in places : r.google_place_id = u.gid
       IN /\ places' = UpdateByGoogleId(places, UpsertReq(u), Now)
          /\ upserts' = [last |-> "update",
                         run |-> [upserts.run EXCEPT ![p] =
                             [u EXCEPT !.pc = "fetch", !.id = old.id,
                                       !.reactivated = ~old.is_active]]]
    /\ UNCHANGED <<upsertFrame, next_id>>

\* its get_by_id and its return
UpsertFetch(p) ==
    /\ upserts.run[p].pc = "fetch"
    /\ LET u == upserts.run[p]
           got == get_by_id(places, u.id, FALSE)
       IN upserts' = [last |-> "fetch",
                      run |-> [upserts.run EXCEPT ![p] = [u EXCEPT !.pc = "done", !.ok = got.ok]]]
    /\ UNCHANGED <<upsertFrame, places, next_id>>

\* DELETE /places/{id}: PlaceRepository::delete_place on a stored place
DeletePlace(id) ==
    /\ \E r \in places : r.id = id
    /\ places' = delete_place(places, id)
    /\ upserts' = [last |-> "delete_place",
                   run |-> [p \in Runs |->
                       IF upserts.run[p].pc \in {"idle", "done"} THEN upserts.run[p]
                       ELSE [upserts.run[p] EXCEPT !.disturbed = TRUE]]]
    /\ UNCHANGED <<upsertFrame, next_id>>

UpsertNext ==
    \/ \E p \in Runs, gid \in PlaceIds : BeginUpsert(p, gid)
    \/ \E p \in Runs : UpsertInsert(p)
    \/ \E p \in Runs : UpsertUpdate(p)
    \/ \E p \in Runs : UpsertFetch(p)
    \/ \E id \in 1..Cardinality(PlaceIds) : DeletePlace(id)

UpsertSpec == Init /\ [][UpsertNext]_vars

\* ------------------------------------------------------------- properties
\* the sync_city call of `stats` has stamped completed_at and returned
RunFinished == stats.completed_at # None

\* that call returned Ok(stats): to the admin handler, or to the Ok arm of
\* sync_cities, which pushed it
RunReturnedStats ==
    IF request.kind = "sync_city"
    THEN result.kind = "stats"
    ELSE all_stats # <<>> /\ all_stats[Len(all_stats)] = stats

\* stats.errors entries about one cell
CellErrors(s, cell_id) == {j \in 1..Len(s.errors) : s.errors[j].cell = cell_id}

\* where the place loop and the cell loop stand after one record was processed
PcAfterPlace ==
    IF Tail(pending) # <<>> THEN "place"
    ELSE IF cell_idx < Len(cells) THEN "cell" ELSE "complete"

\* C1: in sync_city, once nearby-search has returned the rate-limit error the
\* cell loop stops at once (the run goes straight to its completion) and no
\* nearby-search, detail lookup, upsert or subordinate store call is issued
\* for the rest of that run.
C1_RateLimitStopsLoop ==
    [][ /\ (~rate_limited /\ rate_limited') => pc' = "complete"
        /\ (rate_limited /\ rate_limited') =>
              /\ queried' = queried
              /\ detail_calls' = detail_calls
              /\ upsert_calls' = upsert_calls
              /\ sub_calls' = sub_calls
              /\ storeVars' = storeVars ]_vars

\* a run ended by the rate limit with a later cell never queried
C1_Witness ==
    RunFinished /\ rate_limited /\ Len(queried) < Len(cells)

\* C2: if nearby-search succeeds for cells 1..k-1 and returns the rate limit
\* for cell k, sync_city returns Ok(stats) whose places_retrieved is the
\* number of records returned by cells 1..k-1 and whose errors hold an entry
\* for cell k.
C2_RateLimitPartialStats ==
    (/\ RunFinished
     /\ queried # <<>>
     /\ queried[Len(queried)].err = "RateLimitExceeded"
     /\ \A i \in 1..(Len(queried) - 1) : queried[i].ok)
    => LET k == Len(queried)
       IN /\ RunReturnedStats
          /\ stats.places_retrieved = SumSeq([i \in 1..(k - 1) |-> queried[i].count])
          /\ queried[k].cell = cells[k].cell_id
          /\ \E j \in 1..Len(stats.errors) :
                stats.errors[j] = ApiErrorMsg(cells[k].cell_id, "RateLimitExceeded")

\* cell 1 returned records, cell 2 the rate limit
C2_Witness ==
    /\ RunFinished
    /\ Len(queried) = 2
    /\ queried[1].ok /\ queried[1].count > 0
    /\ queried[2].err = "RateLimitExceeded"
    /\ stats.places_retrieved = queried[1].count

\* C3: a nearby-search failure other than the rate limit appends one error
\* for that cell and the loop goes on with the next cell; the cells are
\* queried once each in generation order, and a run without a rate-limit
\* error queries every generated cell.
C3_OtherErrorsContinue ==
    /\ Len(queried) <= Len(cells)
    /\ \A i \in 1..Len(queried) :
          /\ queried[i].cell = cells[i].cell_id
          /\ ~queried[i].ok => Cardinality(CellErrors(stats, queried[i].cell)) = 1
          /\ queried[i].ok => CellErrors(stats, queried[i].cell) = {}
          /\ (queried[i].err = "ExternalApiError" /\ i = Len(queried) /\ ~RunFinished)
                => /\ cell_idx = i + 1
                   /\ pc = IF i < Len(cells) THEN "cell" ELSE "complete"
    /\ (RunFinished /\ ~rate_limited) => Len(queried) = Len(cells)

\* a cell failed with another error and the next cell was queried
C3_Witness ==
    /\ RunFinished
    /\ Len(queried) = 2
    /\ queried[1].err = "ExternalApiError"
    /\ queried[2].ok /\ queried[2].count > 0
    /\ Len(stats.errors) = 1

\* C4: the store never holds two place rows with the same google_place_id.
C4_OneRowPerExternalId ==
    \A r1, r2 \in places : r1.google_place_id = r2.google_place_id => r1 = r2

\* an identifier already stored was upserted again and there is still one row
C4_Witness ==
    /\ last_place.seen /\ last_place.existed /\ last_place.upsert_ok
    /\ Cardinality({r \in places : r.google_place_id = last_place.place_id}) = 1

\* C5: an upsert that returns reports was_created = TRUE exactly when the
\* identifier was absent before the call, and the record is counted in
\* places_created then and in places_skipped otherwise.
C5_CreatedIffAbsent ==
    [][ (upsert_calls' = upsert_calls + 1 /\ last_place'.upsert_ok) =>
          LET absent == ~\E r \in places : r.google_place_id = last_place'.place_id
          IN /\ last_place'.created = absent
             /\ stats'.places_created = stats.places_created + (IF absent THEN 1 ELSE 0)
             /\ stats'.places_skipped = stats.places_skipped + (IF absent THEN 0 ELSE 1) ]_vars

\* a second run of the same city reports the identifier of the first as skipped
C5_Witness ==
    /\ Len(all_stats) = 2
    /\ all_stats[1].places_created = 1 /\ all_stats[1].places_skipped = 0
    /\ all_stats[2].places_created = 0 /\ all_stats[2].places_skipped >= 1
    /\ Cardinality(places) = 1

\* C6: a store failure on one record adds one to places_failed and one error
\* string, and the run goes on: the rest of the cell's records stays to be
\* processed, and a run that is not rate-limited ends with every cell
\* queried and every retrieved record upserted.
C6_StoreFailureContinues ==
    [][ /\ (upsert_calls' = upsert_calls + 1 /\ ~last_place'.upsert_ok) =>
              /\ stats'.places_failed = stats.places_failed + 1
              /\ Len(stats'.errors) = Len(stats.errors) + 1
              /\ stats'.errors[Len(stats'.errors)].msg = "Failed to store"
              /\ stats'.errors[Len(stats'.errors)].name = Head(pending)
              /\ pending' = Tail(pending)
              /\ pc' = PcAfterPlace
        /\ (RunFinished' /\ ~rate_limited') =>
              /\ Len(queried') = Len(cells')
              /\ upsert_calls' = stats'.places_retrieved
              /\ stats'.places_failed = upsert_failures' ]_vars

\* a record failed to store and a later record of the run was stored
C6_Witness ==
    /\ RunFinished
    /\ upsert_failures = 1 /\ stats.places_failed = 1
    /\ last_place.seen /\ last_place.upsert_ok

\* C7: when the detail lookup of a record fails the record is mapped and
\* upserted from its basic data; the failure adds no error and no
\* places_failed (only a failing upsert does) and the loops go on.
C7_DetailFailureUsesBasic ==
    [][ (detail_calls' = detail_calls + 1 /\ ~last_place'.detail_ok) =>
          /\ upsert_calls' = upsert_calls + 1
          /\ last_place'.data = "basic"
          /\ last_place'.upsert_ok =>
                /\ stats'.errors = stats.errors
                /\ stats'.places_failed = stats.places_failed
                /\ stats'.places_created + stats'.places_skipped
                      = stats.places_created + stats.places_skipped + 1
                /\ \E r \in places' : /\ r.google_place_id = Head(pending)
                                      /\ r.data = "basic"
          /\ ~last_place'.upsert_ok =>
                /\ Len(stats'.errors) = Len(stats.errors) + 1
                /\ stats'.errors[Len(stats'.errors)].msg = "Failed to store"
                /\ stats'.places_failed = stats.places_failed + 1
          /\ pending' = Tail(pending)
          /\ pc' = PcAfterPlace ]_vars

\* a record whose detail lookup failed is stored with its basic data
C7_Witness ==
    /\ last_place.seen /\ ~last_place.detail_ok /\ last_place.upsert_ok
    /\ stats.errors = <<>> /\ stats.places_failed = 0
    /\ \E r \in places : r.google_place_id = last_place.place_id /\ r.data = "basic"

\* C8: api_requests of the returned stats is the number of upstream requests
\* of the run: every nearby-search call and every detail lookup.
C8_ApiRequestsCountsAll ==
    RunFinished => stats.api_requests = Len(queried) + detail_calls

\* C9: sync_city for a name that resolves to no boundary returns an error
\* and no stats, and issues no nearby-search, detail lookup or store call.
C9_UnknownCityFailsFast ==
    (/\ run_log # <<>>
     /\ request.kind = "sync_city"
     /\ ~get_city_bounds(request.cities[1]).some)
    => /\ pc = "done"
       /\ result = [kind |-> "err", err |-> "InvalidInput"]
       /\ ~RunFinished
       /\ queried = <<>> /\ detail_calls = 0 /\ upsert_calls = 0 /\ sub_calls = 0
       /\ places = {} /\ place_reviews = {} /\ place_photos = {}

\* sync_city has returned an error
C9_Witness ==
    pc = "done" /\ request.kind = "sync_city" /\ result.kind = "err"

\* C10: sync_cities returns one SyncStats per requested city, in input order;
\* a city that fails to sync gives a record with zero counts, the failure as
\* its only error and completed_at set, and the cities after it are synced.
C10_BatchOnePerCity ==
    (pc = "done" /\ request.kind = "sync_cities") =>
       /\ result.kind = "list"
       /\ Len(all_stats) = Len(request.cities)
       /\ Len(run_log) = Len(request.cities)
       /\ \A i \in 1..Len(request.cities) :
             /\ all_stats[i].city = request.cities[i]
             /\ all_stats[i].completed_at # None
             /\ run_log[i].city = request.cities[i]
             /\ IF get_city_bounds(request.cities[i]).some
                THEN run_log[i].ok /\ run_log[i].nearby >= 1
                ELSE /\ ~run_log[i].ok
                     /\ all_stats[i].errors = <<SyncFailedMsg("InvalidInput")>>
                     /\ all_stats[i].api_requests = 0
                     /\ all_stats[i].places_retrieved = 0
                     /\ all_stats[i].places_created = 0
                     /\ all_stats[i].places_skipped = 0
                     /\ all_stats[i].places_failed = 0
                     /\ all_stats[i].reviews_created = 0
                     /\ all_stats[i].photos_created = 0

\* the first city failed and the second one was synced
C10_Witness ==
    /\ pc = "done"
    /\ request.cities = <<"Madrid", "Zaragoza">>
    /\ Len(all_stats) = 2
    /\ all_stats[1].errors # <<>>
    /\ all_stats[2].places_created >= 1

\* the run of a batch recorded in st was ended by the rate limit
RunRateLimited(st) ==
    \E j \in 1..Len(st.errors) :
        st.errors[j].msg = "API error for cell" /\ st.errors[j].err = "RateLimitExceeded"

\* C11: in a batch, a city whose cell loop was ended by the rate limit does
\* not end the batch: the step that completes it moves to the next city of
\* the list, and when the batch returns that next city has been started and
\* its cells queried (all of them unless it was rate-limited too).
C11_RateLimitEndsOneCityOnly ==
    [][ /\ (/\ pc = "complete" /\ rate_limited /\ request.kind = "sync_cities"
            /\ city_idx < Len(request.cities))
           => pc' = "sync_city" /\ city_idx' = city_idx + 1
        /\ (pc' = "done" /\ request.kind = "sync_cities") =>
              \A i \in 1..(Len(all_stats') - 1) :
                 (RunRateLimited(all_stats'[i])
                    /\ get_city_bounds(request.cities[i + 1]).some)
                 => /\ run_log'[i + 1].city = request.cities[i + 1]
                    /\ run_log'[i + 1].ok
                    /\ run_log'[i + 1].nearby >= 1
                    /\ ~RunRateLimited(all_stats'[i + 1]) =>
                          run_log'[i + 1].nearby
                             = Len(generate_for_city(request.cities[i + 1],
                                                     NoneNum, NoneNum).cells) ]_vars

\* the first city of a batch was rate-limited and every cell of the second
\* one was queried
C11_Witness ==
    /\ pc = "done" /\ request.kind = "sync_cities"
    /\ Len(all_stats) = 2
    /\ RunRateLimited(all_stats[1])
    /\ run_log[2].ok /\ run_log[2].nearby = Len(cells)
    /\ all_stats[2].places_retrieved >= 1

\* the sum of one count over a list of stats
SumOf(stats_list, field) ==
    SumSeq([i \in 1..Len(stats_list) |-> stats_list[i][field]])

\* the error lists of a list of stats, concatenated in order
RECURSIVE ConcatErrors(_)
ConcatErrors(stats_list) ==
    IF stats_list = <<>> THEN <<>>
    ELSE Head(stats_list).errors \o ConcatErrors(Tail(stats_list))

\* C12: the summary aggregate_stats returns for a list of stats (the empty
\* list included) has api_requests, places_retrieved, places_created,
\* places_skipped, places_failed and duration_seconds equal to the sums over
\* the list, errors equal to the concatenation of the error lists in input
\* order, and the sentinel city "Multiple Cities".
C12_AggregateSumsAndConcats ==
    pc = "responded" =>
       /\ aggregated.api_requests = SumOf(all_stats, "api_requests")
       /\ aggregated.places_retrieved = SumOf(all_stats, "places_retrieved")
       /\ aggregated.places_created = SumOf(all_stats, "places_created")
       /\ aggregated.places_skipped = SumOf(all_stats, "places_skipped")
       /\ aggregated.places_failed = SumOf(all_stats, "places_failed")
       /\ aggregated.duration_seconds = SumOf(all_stats, "duration_seconds")
       /\ aggregated.errors = ConcatErrors(all_stats)
       /\ aggregated.city = "Multiple Cities"
       /\ \A i \in 1..Len(all_stats) : aggregated.city # all_stats[i].city
       /\ all_stats = <<>> =>
             /\ aggregated.api_requests = 0 /\ aggregated.places_retrieved = 0
             /\ aggregated.places_created = 0 /\ aggregated.places_skipped = 0
             /\ aggregated.places_failed = 0 /\ aggregated.duration_seconds = 0
             /\ aggregated.errors = <<>>

\* two stats with an error each and non-zero counts were aggregated
C12_Witness ==
    /\ pc = "responded"
    /\ Len(all_stats) = 2
    /\ all_stats[1].errors # <<>> /\ all_stats[2].errors # <<>>
    /\ Len(aggregated.errors) = 2
    /\ aggregated.places_created >= 1
    /\ aggregated.duration_seconds >= 1

\* C13: the summary's reviews_created and photos_created are the sums of the
\* inputs' reviews_created and photos_created.
C13_AggregateSumsSubordinates ==
    pc = "responded" =>
       /\ aggregated.reviews_created = SumOf(all_stats, "reviews_created")
       /\ aggregated.photos_created = SumOf(all_stats, "photos_created")

\* C14: the stats of a run have completed_at unset from their creation to the
\* end of the cell loop; the step after the loop (reached on normal
\* completion and on rate-limit abort alike) sets duration and completed_at
\* and nothing else; once stamped the record is never modified again, and
\* the records already returned in a batch never change.
C14_CompletedExactlyOnce ==
    [][ /\ pc' \in {"cell", "place", "complete"} => stats'.completed_at = None
        /\ pc = "complete" =>
              /\ stats.completed_at = None
              /\ stats'.completed_at # None
        /\ (stats.completed_at = None /\ stats'.completed_at # None) =>
              /\ pc = "complete"
              /\ stats' = [stats EXCEPT !.duration_seconds = stats'.duration_seconds,
                                        !.completed_at = stats'.completed_at]
        /\ stats.completed_at # None =>
              \/ stats' = stats
              \/ pc = "sync_city" /\ stats' = SyncStats_new(request.cities[city_idx])
        /\ \A i \in 1..Len(all_stats) :
              Len(all_stats') >= i /\ all_stats'[i] = all_stats[i] ]_vars

\* a run ended by the rate limit was stamped with its partial counts
C14_Witness ==
    /\ RunFinished /\ rate_limited
    /\ stats.places_created >= 1
    /\ stats.duration_seconds = 1
    /\ pc = "done"

\* the positions of the rated reviews of a list
Rated(reviews) == {i \in 1..Len(reviews) : reviews[i].rated}

\* the dedup key sync_city gives the review posted at `time` on place gid
ReviewKey(gid, time) == [place_id |-> gid, time |-> time]

\* C15: when a record has been upserted, each of its rated reviews is upserted
\* with source "google" under the key (external place id, posted timestamp)
\* and reviews without a rating are not upserted; reviews_created counts the
\* successful ones; a failing review upsert adds no error and counts the
\* place as any other stored place, and the later reviews, the photos, the
\* remaining records and the remaining cells are processed all the same.
C15_ReviewsUpsertedByKey ==
    [][ (upsert_calls' = upsert_calls + 1 /\ last_place'.upsert_ok) =>
          LET lp == last_place'
              rated == Rated(lp.reviews)
          IN /\ \A i \in rated \ lp.rfail :
                   \E r \in place_reviews' :
                      /\ r.source = "google"
                      /\ r.source_id = ReviewKey(lp.place_id, lp.reviews[i].time)
             /\ \A i \in (1..Len(lp.reviews)) \ rated :
                   (\E r \in place_reviews' :
                       r.source_id = ReviewKey(lp.place_id, lp.reviews[i].time))
                   => \E r \in place_reviews :
                         r.source_id = ReviewKey(lp.place_id, lp.reviews[i].time)
             /\ sub_calls' = sub_calls + Cardinality(rated) + Len(lp.photos)
             /\ stats'.reviews_created
                   = stats.reviews_created + Cardinality(rated \ lp.rfail)
             /\ stats'.photos_created
                   = stats.photos_created + Len(lp.photos) - Cardinality(lp.pfail)
             /\ stats'.errors = stats.errors
             /\ stats'.places_failed = stats.places_failed
             /\ stats'.places_created + stats'.places_skipped
                   = stats.places_created + stats.places_skipped + 1
             /\ pending' = Tail(pending)
             /\ pc' = PcAfterPlace ]_vars

\* the first rated review of a record failed, the later one and the photos
\* were stored, and the run went on to its end
C15_Witness ==
    /\ RunFinished
    /\ last_place.seen /\ last_place.upsert_ok
    /\ last_place.rfail = {1}
    /\ stats.reviews_created = 1 /\ stats.photos_created = 2
    /\ stats.errors = <<>> /\ stats.places_failed = 0
    /\ \E r \in place_reviews : r.source_id = ReviewKey(last_place.place_id, 3)
    /\ ~\E r \in place_reviews : r.source_id = ReviewKey(last_place.place_id, 1)

\* C16: when a record has been upserted, each photo of its list whose upsert
\* succeeds is stored with display_order equal to its (0-based) position in
\* the list and is_primary true for the first listed photo only, and
\* photos_created increases by one per successful upsert.
C16_PhotosOrderedFirstPrimary ==
    [][ (upsert_calls' = upsert_calls + 1 /\ last_place'.upsert_ok) =>
          LET lp == last_place'
              stored == (1..Len(lp.photos)) \ lp.pfail
          IN /\ \A i \in stored :
                   \E r \in place_photos' :
                      /\ r.source = "google"
                      /\ r.source_photo_reference = lp.photos[i]
                      /\ r.display_order = i - 1
                      /\ r.is_primary = (i = 1)
             /\ \A r \in place_photos' :
                   (\E i \in stored : r.source_photo_reference = lp.photos[i]
                                       /\ r.is_primary)
                   => r.source_photo_reference = lp.photos[1]
             /\ stats'.photos_created = stats.photos_created + Cardinality(stored) ]_vars

\* a record with two photos was stored: the first is primary with order 0,
\* the second is not primary and has order 1
C16_Witness ==
    /\ last_place.seen /\ last_place.upsert_ok
    /\ Len(last_place.photos) = 2 /\ last_place.pfail = {}
    /\ stats.photos_created = 2
    /\ \E r1, r2 \in place_photos :
          /\ r1.source_photo_reference = last_place.photos[1]
          /\ r1.is_primary /\ r1.display_order = 0
          /\ r2.source_photo_reference = last_place.photos[2]
          /\ ~r2.is_primary /\ r2.display_order = 1

\* C17: whatever the outcome of a record's detail lookup, upsert and review
\* and photo upserts, the pacing delay is applied after the record, so that
\* the detail lookup of the next record of the cell never starts without an
\* intervening delay; and a delay is applied after each cell before the next
\* cell's nearby-search.
C17_DelayAfterEveryRecord ==
    [][ /\ (upsert_calls' = upsert_calls + 1 /\ pc' = "place") => slept'.record
        /\ (pc \in {"cell", "place"} /\ pc' = "cell") => slept'.cell ]_vars

\* the row of an external identifier
RowOf(tbl, gid) == CHOOSE r \in tbl : r.google_place_id = gid

\* C18: no step changes the internal id or the creation time of a stored
\* place; an upsert that hits an already stored external identifier
\* overwrites the mutable attributes of that row with the new values and
\* stamps updated_at, leaving id and created_at as they were.
C18_UpdateKeepsStableFields ==
    [][ /\ \A r \in places :
              \E r2 \in places' : /\ r2.google_place_id = r.google_place_id
                                    /\ r2.id = r.id
                                    /\ r2.created_at = r.created_at
        /\ (/\ upsert_calls' = upsert_calls + 1
            /\ last_place'.existed /\ last_place'.upsert_ok) =>
              LET old == RowOf(places, last_place'.place_id)
                  new == RowOf(places', last_place'.place_id)
              IN /\ new.id = old.id /\ new.created_at = old.created_at
                 /\ new.data = last_place'.data
                 /\ new.city = request.cities[city_idx]
                 /\ new.is_active
                 /\ new.updated_at = Now /\ new.updated_at > old.updated_at
                 /\ last_place'.id = old.id
                 /\ Cardinality(places') = Cardinality(places) ]_vars

\* a place first stored from its details was upserted again from basic data:
\* the row holds the new data and an older creation time
C18_Witness ==
    /\ last_place.seen /\ last_place.existed /\ last_place.upsert_ok
    /\ last_place.data = "basic"
    /\ \E r \in places : /\ r.google_place_id = last_place.place_id
                          /\ r.data = "basic"
                          /\ r.created_at < r.updated_at
                          /\ \E v \in place_reviews : v.place_id = r.id

\* C19: generate_grid numbers the cells 1, 2, ... in generation order, the
\* k-th cell being named (boundary name, k); the order is row-major: a cell
\* is followed either by the next cell of its latitude row, further east, or
\* by the first cell (at min_lng) of the next row, further north.
C19_CellsNumberedRowMajor ==
    pc = "grid_done" =>
       /\ \A k \in 1..Len(cells) :
             cells[k].cell_id = [name |-> request.bounds.name, index |-> k]
       /\ \A k \in 1..(Len(cells) - 1) :
             \/ /\ cells[k + 1].latitude = cells[k].latitude
                /\ cells[k + 1].longitude > cells[k].longitude
             \/ /\ cells[k + 1].latitude > cells[k].latitude
                /\ cells[k + 1].longitude = request.bounds.min_lng
       /\ \A i, j \in 1..Len(cells) :
             i < j => \/ cells[i].latitude < cells[j].latitude
                      \/ /\ cells[i].latitude = cells[j].latitude
                         /\ cells[i].longitude < cells[j].longitude

\* a grid of at least two rows and two columns
C19_Witness ==
    /\ pc = "grid_done"
    /\ Len(cells) >= 4
    /\ cells[2].latitude = cells[1].latitude
    /\ cells[2].longitude > cells[1].longitude
    /\ cells[Len(cells)].latitude > cells[1].latitude
    /\ cells[Len(cells)].longitude > cells[1].longitude

\* C20: for a boundary with min < max on both axes and a positive cell size
\* generate_grid returns at least one cell, every cell has the requested
\* radius, and every cell lies within the boundary expanded by one step on
\* each side.
C20_GridWithinExpandedBounds ==
    (/\ pc = "grid_done"
     /\ request.bounds.min_lat < request.bounds.max_lat
     /\ request.bounds.min_lng < request.bounds.max_lng
     /\ request.cell_size > 0)
    => LET b == request.bounds
           lat_step == LatStep(request.cell_size)
           lng_step == LngStep(b, request.cell_size)
       IN /\ Len(cells) >= 1
          /\ \A k \in 1..Len(cells) :
                /\ cells[k].radius = request.radius_m
                /\ cells[k].latitude >= b.min_lat - lat_step
                /\ cells[k].latitude <= b.max_lat + lat_step
                /\ cells[k].longitude >= b.min_lng - lng_step
                /\ cells[k].longitude <= b.max_lng + lng_step

\* a grid of several cells with a radius other than the default one
C20_Witness ==
    /\ pc = "grid_done"
    /\ request.radius_m = 500
    /\ Len(cells) >= 6
    /\ \A k \in 1..Len(cells) : cells[k].radius = 500

\* C21: the registry resolves the city names its tests use: in any letter
\* case "Madrid" gives a boundary named "Madrid" with min < max on both
\* axes, and generate_for_city("Barcelona") succeeds with a non-empty grid.
C21_RegistryResolvesTestCities ==
    (request.kind = "sync_city" /\ pc \notin {"idle", "sync_city"}) =>
        LET city == request.cities[1]
            bounds == get_city_bounds(city)
        IN /\ to_lowercase(city) = "madrid" =>
                /\ bounds.some
                /\ bounds.name = "Madrid"
                /\ bounds.min_lat < bounds.max_lat
                /\ bounds.min_lng < bounds.max_lng
           /\ city = "Barcelona" => (result.kind # "err" /\ cells # <<>>)

\* an entry exists under the key and its expiry has not passed
Live(store, key, now) == key \in DOMAIN store /\ now <= store[key].expires_at
\* an entry exists under the key and its expiry has passed
Stale(store, key, now) == key \in DOMAIN store /\ now > store[key].expires_at
\* this step is a call of the named cache operation
CacheStep(name) == cache_ret' # cache_ret /\ cache_ret'.op = name

\* C22: get(key) returns the stored value exactly when an entry exists under
\* the key and its expiry has not passed; once the expiry has passed it
\* returns nothing, whether the entry is still stored or cleanup removed it.
C22_GetReturnsUnexpiredOnly ==
    [][CacheStep("get") =>
        LET key == cache_ret'.key
        IN IF Live(cache_store, key, clock)
           THEN cache_ret'.value = Some(cache_store[key].data)
           ELSE ~cache_ret'.value.some]_vars

\* get has just returned nothing for an entry that is stored and expired
C22_Witness ==
    /\ cache_ret.op = "get" /\ cache_ret.at = clock
    /\ Stale(cache_store, cache_ret.key, clock)
    /\ ~cache_ret.value.some

\* C23: set(key, value, ttl?) overwrites whatever is stored under the key;
\* afterwards get returns the new value, and the expiry of the entry is the
\* instant of this set plus the given TTL, the default TTL when none is given.
C23_SetOverwrites ==
    [][CacheStep("set") =>
        LET key == cache_ret'.key
            ttl == cache_ret'.ttl
            value == cache_ret'.value.v
        IN /\ key \in DOMAIN cache_store'
           /\ cache_store'[key].data = value
           /\ cache_store'[key].expires_at = clock + (IF ttl.some THEN ttl.v ELSE DefaultTtl)
           /\ PlacesCache_get(cache_store', key, clock') = Some(value)
           /\ \A k \in CacheKeys \ {key} :
                 /\ k \in DOMAIN cache_store' <=> k \in DOMAIN cache_store
                 /\ k \in DOMAIN cache_store => cache_store'[k] = cache_store[k]]_vars

\* a set with the default TTL has just replaced an entry
C23_Witness ==
    /\ cache_ret.op = "set" /\ cache_ret.at = clock /\ clock > 0
    /\ cache_ret.key \in cache_ret.before
    /\ ~cache_ret.ttl.some
    /\ cache_store[cache_ret.key].expires_at = clock + DefaultTtl

\* C24: cleanup removes every expired entry and no other, leaving the
\* unexpired entries as they were; a second cleanup changes nothing; once
\* every entry has expired and cleanup has run, stats reports zero active
\* entries.
C24_CleanupRemovesExpiredOnly ==
    [][/\ (CacheStep("cleanup") \/ CacheStep("sweep")) =>
            /\ DOMAIN cache_store' = {k \in DOMAIN cache_store : Live(cache_store, k, clock)}
            /\ \A k \in DOMAIN cache_store' : cache_store'[k] = cache_store[k]
            /\ PlacesCache_cleanup(cache_store', clock') = cache_store'
       /\ (/\ CacheStep("stats")
           /\ cache_ret.op \in {"cleanup", "sweep"}
           /\ \A k \in cache_ret.before : Stale(cache_store, k, clock) \/ k \notin DOMAIN cache_store)
          => /\ cache_ret'.stats.active_entries = 0
             /\ cache_ret.at = clock => cache_ret'.stats.total_entries = 0]_vars

\* cleanup has just removed an expired entry and kept an unexpired one
C24_Witness ==
    /\ cache_ret.op = "cleanup" /\ cache_ret.at = clock
    /\ cache_ret.before = CacheKeys
    /\ Cardinality(DOMAIN cache_store) = 1
    /\ \A k \in DOMAIN cache_store : Live(cache_store, k, clock)

\* C25: under every interleaving of get, set, cleanup (called directly or by
\* the sweep) and the passage of time, each operation being atomic: no step
\* removes an entry that get would still return, get never returns the value
\* of an expired entry, and an expired entry becomes retrievable again only
\* through a new set on its key.
C25_InterleavingsKeepExpiry ==
    [][/\ \A k \in CacheKeys :
            /\ Live(cache_store, k, clock) => k \in DOMAIN cache_store'
            /\ (Stale(cache_store, k, clock) /\ Live(cache_store', k, clock'))
                  => (CacheStep("set") /\ cache_ret'.key = k)
       /\ (CacheStep("get") /\ cache_ret'.value.some)
            => /\ Live(cache_store, cache_ret'.key, clock)
               /\ cache_ret'.value.v = cache_store[cache_ret'.key].data]_vars

\* the sweep has just removed an expired entry and kept one that is at its
\* expiry instant, which get still returns
C25_Witness ==
    /\ cache_ret.op = "sweep" /\ cache_ret.at = clock
    /\ cache_ret.before = CacheKeys
    /\ \E k \in CacheKeys :
          /\ DOMAIN cache_store = {k}
          /\ Live(cache_store, k, clock)
          /\ cache_store[k].expires_at = clock

\* C26: every expired entry that no later set overwrites is eventually
\* removed by the recurring sweep, as long as its timer keeps firing.
C26_ExpiredEventuallySwept ==
    \A k \in CacheKeys :
        Stale(cache_store, k, clock) ~> (k \notin DOMAIN cache_store \/ Live(cache_store, k, clock))

\* the sweep has just removed every entry, all of them expired
C26_Witness ==
    /\ cache_ret.op = "sweep" /\ cache_ret.at = clock
    /\ cache_ret.before # {}
    /\ cache_store = <<>>

Abs(x) == IF x >= 0 THEN x ELSE -x
\* the two queries have the same radius, category filter and keyword
SameFilters(q1, q2) ==
    q1.radius = q2.radius /\ q1.place_type = q2.place_type /\ q1.keyword = q2.keyword
\* both coordinates (1e-5 degree) are less than 0.00005 degree away from the
\* same multiple of 0.0001 degree
SameCell(x1, x2) ==
    \E g \in (x1 \div 10 - 2)..(x1 \div 10 + 2) : Abs(x1 - 10 * g) < 5 /\ Abs(x2 - 10 * g) < 5

\* C27 as stated: two queries with the same radius, category filter and
\* keyword whose latitudes and longitudes each differ by less than 0.0001
\* degree have the same key.
C27_NearbyCentresShareKey ==
    call.fn = "generate_key" =>
        \A q \in KeyQueries :
            (/\ SameFilters(call, q)
             /\ Abs(call.lat - q.lat) < 10
             /\ Abs(call.lon - q.lon) < 10)
            => KeyOf(q) = returned

\* C27 as amended: two queries with the same radius, category filter and
\* keyword have the same key when their latitudes are less than 0.00005
\* degree away from one multiple of 0.0001 degree and their longitudes
\* likewise.
C27_SameCellSharesKey ==
    call.fn = "generate_key" =>
        \A q \in KeyQueries :
            (/\ SameFilters(call, q)
             /\ SameCell(call.lat, q.lat)
             /\ SameCell(call.lon, q.lon))
            => KeyOf(q) = returned

\* a key was generated for a centre that shares its cell with another centre,
\* on both axes, one below and one above the multiple of 0.0001 degree
C27_Witness ==
    /\ call.fn = "generate_key"
    /\ returned = "search:404168:-37038:1000:restaurant:pizza"
    /\ call.lat = 4041676 /\ call.lon = -370384
    /\ \E q \in KeyQueries :
          /\ q.lat > 4041680 /\ q.lon > -370380
          /\ SameFilters(call, q) /\ SameCell(call.lat, q.lat) /\ SameCell(call.lon, q.lon)

\* C28 as stated: the key is a function of the query, and two queries that
\* differ only by 0.0001 degree of latitude, or only in the keyword, have
\* different keys.
C28_DistinctQueriesDistinctKeys ==
    call.fn = "generate_key" =>
        \A q \in KeyQueries :
            /\ q = call => KeyOf(q) = returned
            /\ (Abs(q.lat - call.lat) = 10 /\ [q EXCEPT !.lat = call.lat] = call)
                   => KeyOf(q) # returned
            /\ (q.keyword # call.keyword /\ [q EXCEPT !.keyword = call.keyword] = call)
                   => KeyOf(q) # returned

\* C28 as amended: as stated, except that the keywords must differ as text,
\* an absent keyword counting as the empty text.
C28_DistinctTextDistinctKeys ==
    call.fn = "generate_key" =>
        \A q \in KeyQueries :
            /\ q = call => KeyOf(q) = returned
            /\ (Abs(q.lat - call.lat) = 10 /\ [q EXCEPT !.lat = call.lat] = call)
                   => KeyOf(q) # returned
            /\ (/\ unwrap_or(q.keyword, "") # unwrap_or(call.keyword, "")
                /\ [q EXCEPT !.keyword = call.keyword] = call)
                   => KeyOf(q) # returned

\* the key of the query of test_generate_key, which has a neighbour 0.0001
\* degree north and others with a keyword
C28_Witness ==
    /\ call = [fn |-> "generate_key", lat |-> 4041680, lon |-> -370380, radius |-> 1000,
               place_type |-> Some("restaurant"), keyword |-> NoneStr]
    /\ returned = "search:404168:-37038:1000:restaurant:"
    /\ \E q \in KeyQueries : q.lat = call.lat + 10

\* the cache key of an ad-hoc search that has coordinates
SearchKey(query) ==
    generate_key(query.lat.v, query.lon.v, radius_meters(query), query.type_, query.q)

\* C29: on the ad-hoc search path the cache is a read-through layer: of two
\* searches with the same key, the second issued within the TTL of the first,
\* the second is answered from the cache, so that at most one nearby-search
\* request goes upstream for the two.
C29_SearchReadsThroughCache ==
    \A i, j \in DOMAIN search_log :
        (/\ i < j
         /\ search_log[i].path = "google" /\ search_log[j].path = "google"
         /\ search_log[i].ok
         /\ search_log[j].query.lat.some /\ search_log[j].query.lon.some
         /\ SearchKey(search_log[i].query) = SearchKey(search_log[j].query)
         /\ search_log[j].at <= search_log[i].at + DefaultTtl)
        => /\ search_log[j].requests = 0
           /\ search_log[i].requests + search_log[j].requests <= 1

\* the tags of a record, without their order
TagSet(types) == {types[i] : i \in DOMAIN types}

\* C30: the internal type of a record is the value mapped by the first entry
\* of the priority list whose category is among the tags of the record,
\* whatever the order of the tags; with no tag in the list it is "other".
C30_FirstListEntryWins ==
    call.fn = "map_google_type_to_internal" =>
        LET tags == TagSet(call.types)
            hits == {i \in DOMAIN type_map : type_map[i][1] \in tags}
        IN /\ hits = {} => returned = "other"
           /\ hits # {} =>
                \E i \in hits : /\ \A j \in hits : i <= j
                                /\ returned = type_map[i][2]
           /\ \A types \in TypeLists :
                 TagSet(types) = tags => map_google_type_to_internal(types) = returned

\* a record whose tags come in the reverse of the list order was mapped to
\* the type of the entry that comes first in the list
C30_Witness ==
    /\ call.fn = "map_google_type_to_internal"
    /\ call.types = <<"food", "night_club", "bar">>
    /\ returned = "bar"

\* the priority order of the doc comment of map_google_type_to_internal,
\* "restaurant > bar > cafe > club > museum > park > other", as pairs
\* (google type, internal type)
DocumentedPriority ==
    << <<"restaurant", "restaurant">>, <<"bar", "bar">>, <<"cafe", "cafe">>,
       <<"night_club", "nightclub">>, <<"museum", "other">>, <<"park", "other">> >>

\* C31: classification follows the documented priority order restaurant >
\* bar > cafe > club > museum > park > other; in particular a record tagged
\* both cafe and night_club is classified as cafe.
C31_DocumentedPriorityOrder ==
    call.fn = "map_google_type_to_internal" =>
        LET tags == TagSet(call.types)
            named == {DocumentedPriority[i][1] : i \in DOMAIN DocumentedPriority}
            hits == {i \in DOMAIN DocumentedPriority : DocumentedPriority[i][1] \in tags}
        IN (tags \subseteq named \cup {"store"} /\ hits # {}) =>
              \E i \in hits : /\ \A j \in hits : i <= j
                              /\ returned = DocumentedPriority[i][2]

\* C32: reviews_created and photos_created count the subordinate rows the run
\* creates: upserting a place whose rated reviews and photos are all stored
\* already (same dedup keys, same place) adds no row and leaves both counters
\* as they were.
C32_SubordinateCountsAreCreations ==
    [][ (/\ upsert_calls' = upsert_calls + 1
         /\ last_place'.upsert_ok /\ last_place'.existed
         /\ \A i \in Rated(last_place'.reviews) :
               \E r \in place_reviews :
                  /\ r.place_id = last_place'.id
                  /\ r.source_id = ReviewKey(last_place'.place_id, last_place'.reviews[i].time)
         /\ \A i \in DOMAIN last_place'.photos :
               \E r \in place_photos :
                  /\ r.place_id = last_place'.id
                  /\ r.source_photo_reference = last_place'.photos[i])
        => /\ Cardinality(place_reviews') = Cardinality(place_reviews)
           /\ Cardinality(place_photos') = Cardinality(place_photos)
           /\ stats'.reviews_created = stats.reviews_created
           /\ stats'.photos_created = stats.photos_created ]_vars

\* C34: at the end of every sync_city run, completed normally or stopped by
\* the rate limit, places_retrieved = places_created + places_skipped +
\* places_failed.
C34_RetrievedFullyAccounted ==
    RunFinished =>
        /\ stats.places_retrieved
              = stats.places_created + stats.places_skipped + stats.places_failed
        /\ stats.places_retrieved = SumSeq([i \in DOMAIN queried |-> queried[i].count])

\* a run of two records has ended, one record stored and one failed
C34_Witness ==
    /\ RunFinished /\ RunReturnedStats
    /\ stats.places_retrieved = 2
    /\ stats.places_failed = 1
    /\ stats.places_created + stats.places_skipped = 1

\* C33: every sync terminates: a started sync_city returns, and a started
\* sync_cities returns after having run every requested city.
C33_EverySyncReturns ==
    (pc # "idle") ~> (/\ pc \in {"done", "responded"}
                      /\ Len(run_log) = Len(request.cities)
                      /\ request.kind = "sync_cities" => Len(all_stats) = Len(request.cities))

\* a batch of two cities has returned after the failure of one city and a
\* run of the other with an injected failure and MaxRecords records
C33_Witness ==
    /\ pc = "done" /\ request.kind = "sync_cities"
    /\ Len(request.cities) = 2 /\ Len(run_log) = 2
    /\ faults = MaxFaults /\ records = MaxRecords

\* C35: after any sequence of sync runs each stored place has at most one
\* photo flagged primary, also when a later run lists other photos or the
\* same photos in another order.
C35_OnePrimaryPhotoPerPlace ==
    \A r1, r2 \in place_photos :
        (r1.place_id = r2.place_id /\ r1.is_primary /\ r2.is_primary) => r1 = r2

\* C36 as stated: a sync run never changes the activity flag of a stored
\* place: the upsert of an external identifier whose record was soft-deleted
\* leaves it inactive.
C36_UpsertKeepsActivityFlag ==
    [][upserts'.last # "delete_place" =>
          \A r \in places : \A r2 \in places' :
              r2.google_place_id = r.google_place_id => r2.is_active = r.is_active]_vars

\* C36 as amended: a sync run never clears the activity flag of a stored
\* place, and the upsert of an external identifier that is stored sets it:
\* a soft-deleted record is active again after the update.
C36_UpsertReactivates ==
    [][upserts'.last # "delete_place" =>
          /\ \A r \in places : \A r2 \in places' :
                (r2.google_place_id = r.google_place_id /\ r.is_active) => r2.is_active
          /\ \A p \in Runs :
                (upserts.run[p].pc = "update" /\ upserts'.run[p].pc = "fetch")
                => RowOf(places', upserts.run[p].gid).is_active]_vars

\* an upsert has returned the record it found soft-deleted, not as created,
\* and the record is active
C36_Witness ==
    \E p \in Runs :
        /\ upserts.run[p].pc = "done" /\ upserts.run[p].ok
        /\ upserts.run[p].reactivated /\ ~upserts.run[p].created
        /\ RowOf(places, upserts.run[p].gid).is_active

C38_GenerateGridTerminates ==
    (pc = "grid_outer") ~> (pc = "grid_done")

\* C39: for min <= max on both axes the grid is the full rectangle of step
\* positions from the south-west corner, edges included: rows * columns
\* cells, at least one, the first at (min_lat, min_lng), the cell of row i
\* and column j at (min_lat + i * lat_step, min_lng + j * lng_step), where
\* rows and columns count the positions <= max; a position exactly on max is
\* one of them and min = max gives one position.
C39_GridIsFullRectangle ==
    pc = "grid_done" =>
       LET b == request.bounds
           lat_step == LatStep(request.cell_size)
           lng_step == LngStep(b, request.cell_size)
           rows == Cardinality({i \in 0..MaxCells : b.min_lat + i * lat_step <= b.max_lat})
           cols == Cardinality({j \in 0..MaxCells : b.min_lng + j * lng_step <= b.max_lng})
       IN /\ rows >= 1 /\ cols >= 1
          /\ Len(cells) = rows * cols
          /\ cells[1].latitude = b.min_lat /\ cells[1].longitude = b.min_lng
          /\ \A i \in 0..(rows - 1) : \A j \in 0..(cols - 1) :
                /\ cells[i * cols + j + 1].latitude = b.min_lat + i * lat_step
                /\ cells[i * cols + j + 1].longitude = b.min_lng + j * lng_step

\* a grid whose last row lies on max_lat and whose last column lies on
\* max_lng, with more than one row and column
C39_Witness ==
    /\ pc = "grid_done"
    /\ Len(cells) >= 4
    /\ cells[Len(cells)].latitude = request.bounds.max_lat
    /\ cells[Len(cells)].longitude = request.bounds.max_lng
    /\ cells[1].latitude < request.bounds.max_lat
    /\ cells[1].longitude < request.bounds.max_lng

\* C40: generate_key never gives the same key to two queries with the same
\* quantized centre and the same radius that differ in the category filter
\* or in the keyword, an absent filter and the filter "all", an absent and
\* an empty keyword, and values that contain ':' included.
C40_FiltersNeverShareKey ==
    call.fn = "generate_key" =>
        \A q \in KeyQueries :
            (/\ RoundE4(q.lat) = RoundE4(call.lat)
             /\ RoundE4(q.lon) = RoundE4(call.lon)
             /\ q.radius = call.radius
             /\ (q.place_type # call.place_type \/ q.keyword # call.keyword))
            => KeyOf(q) # returned

====
